---- MODULE Spec2Model ----
(***************************************************************************)
(* Model of minedb's buffer pool manager (src/buffer/buffer_pool_manager.rs)*)
(* with its clock replacer (src/buffer/replacer.rs), page frames            *)
(* (src/storage/page/page.rs) and the in-memory disk manager                *)
(* (src/storage/disk/disk_manager.rs, FakeDiskManager), which is the disk   *)
(* BufferPoolManager::new_default installs.                                 *)
(***************************************************************************)
EXTENDS Integers, Sequences, FiniteSets, TLC

(***************************************************************************)
(* Bounds of the model.                                                     *)
(***************************************************************************)
\* pool_size handed to BufferPoolManager::new_default
PoolSize == 2
\* callers name the page ids 0..MaxPid; the disk handed out all of them but
\* MaxPid before the pool was built, and new_page is followed while the disk
\* hands out an id of that range (or fails)
MaxPid == 2
\* largest number of outstanding leases a caller takes on one page id
MaxLease == 2
\* fetch_page/new_page are followed while the frame they pin holds fewer than
\* MaxPin pins (or the wrapped count u64::MAX)
MaxPin == 2
\* page contents (the whole PAGE_SIZE byte array) are one value of 0..MaxData:
\* 0 is the zeroed array
MaxData == 1
\* the pool size and the page ids 0..DataMaxPid of the specification whose
\* callers write page bytes
DataPoolSize == 1
DataMaxPid == 1
\* ConcSpec: the threads that call fetch_page, and the largest page id they ask for
ConcThreads == 2
ConcMaxPid == 1
\* ReplacerSpec / ReplacerConcSpec: the size of the ClockReplacer and the
\* threads that call it
ReplacerFrames == 3
ReplacerThreads == 2
SeqFrames == 4
\* HeaderSpec: the page ids, bucket counts and add() calls of the headers
MaxHeaderPid == 2
MaxHeaderSize == 2
MaxHeaderAdd == 2
\* BlockSpec: the keys and values of the mappings
MaxKey == 2
MaxValue == 1
\* HashSpec: the buckets of the index, the values of its pairs and the calls
\* made on it
HashBuckets == 2
MaxHashKey == 1
MaxHashValue == 3
MaxHashOps == 5
MaxDiskData == 2
MaxDiskOps == 4

\* CapacitySpec: the keys of the block pages have 1 .. MaxKeySize bytes
MaxKeySize == 48

(***************************************************************************)
(* Program constants.                                                       *)
(***************************************************************************)
\* 0x1 << 16
MAX_FILE_PAGES == 65536
\* usize::MAX; the largest 32-bit signed integer stands for it
INVALID_PAGE_ID == 2147483647
PAGE_SIZE == 4096
\* u64::MAX, the value Page::unpin wraps to from 0 when overflow checks are
\* off; the largest 32-bit signed integer stands for it
U64_MAX == 2147483647
NO_FRAME == -1
REF_ZERO == 0
REF_ONE == 1

PageIds == 0 .. MaxPid
Data == 0 .. MaxData
\* Option::None of a frame id / page id / page contents
None == -2

VARIABLES
  page_table,       \* BufferPoolManager.page_table : PageId -> FrameId
  free_list,        \* BufferPoolManager.free_list  : queue of FrameId
  buffer_pool,      \* BufferPoolManager.buffer_pool: FrameId -> Page
  replacer,         \* ClockReplacer: size, last, frame_holder
  disk_manager,     \* FakeDiskManager: page_counter, fake_file
  overflow_checks,  \* TRUE: debug build (u64 underflow panics); FALSE: wraps
  panicked,         \* the process aborted in a panic
  ret,              \* the last call: what was asked, what it returned, what it did
  ghost,            \* the callers' books, per page id: outstanding leases, bytes written
  threads           \* concurrent fetch_page callers: their position and locals

poolVars == <<page_table, free_list, buffer_pool, replacer, disk_manager>>
vars == <<page_table, free_list, buffer_pool, replacer, disk_manager,
          overflow_checks, panicked, ret, ghost, threads>>

(***************************************************************************)
(* Page (src/storage/page/page.rs)                                          *)
(***************************************************************************)
EMPTY_PAGE == [id |-> INVALID_PAGE_ID, pin_count |-> 0, dirty_flag |-> FALSE, data |-> 0]

\* Page::pin: pin_count += 1 on a u64
Page_pin_overflows(page) == page.pin_count = U64_MAX
Page_pin(page) ==
  [page EXCEPT !.pin_count = IF @ = U64_MAX THEN 0 ELSE @ + 1]

\* Page::unpin: pin_count -= 1 on a u64
Page_unpin_overflows(page) == page.pin_count = 0
Page_unpin(page) ==
  [page EXCEPT !.pin_count = IF @ = 0 THEN U64_MAX ELSE @ - 1]

\* the caps on the pin counter that keep the model finite
PinBounded(page) == page.pin_count < MaxPin \/ page.pin_count = U64_MAX
UnpinBounded(page) == page.pin_count <= MaxPin

Page_set_dirty(page, is_dirty) == [page EXCEPT !.dirty_flag = is_dirty]

Page_get_pin_count_zero(page) == 0
Page_get_pin_count(page) == page.pin_count

Page_is_dirty_never(page) == FALSE
Page_is_dirty(page) == page.dirty_flag

(***************************************************************************)
(* ClockReplacer (src/buffer/replacer.rs), called by one thread at a time   *)
(***************************************************************************)
ClockReplacer_new_wide(size) ==
  [size |-> 0, last |-> 0, frame_holder |-> [i \in 0 .. (3 * size - 1) |-> NO_FRAME]]

ClockReplacer_new(size) ==
  [size |-> 0, last |-> 0, frame_holder |-> [i \in 0 .. (size - 1) |-> NO_FRAME]]

\* the loop of victim(); r.size > 0 on entry of every iteration that sweeps.
\* inspected counts the reads of guard[last], one an iteration.
RECURSIVE victim_loop(_)
victim_loop(r) ==
  IF r.size = 0 THEN [replacer |-> r, fid |-> None, inspected |-> 0]
  ELSE LET last == r.last
           last_value == r.frame_holder[last]
       IN IF last_value = REF_ZERO
          THEN [replacer |-> [r EXCEPT !.frame_holder[last] = NO_FRAME,
                                       !.size = @ - 1],
                fid |-> last, inspected |-> 1]
          ELSE LET fh == IF last_value = REF_ONE
                         THEN [r.frame_holder EXCEPT ![last] = REF_ZERO]
                         ELSE r.frame_holder
                   nxt == IF last + 1 = Cardinality(DOMAIN r.frame_holder)
                          THEN 0 ELSE last + 1
               IN [victim_loop([r EXCEPT !.frame_holder = fh, !.last = nxt])
                     EXCEPT !.inspected = @ + 1]

ClockReplacer_victim_rewind(r) ==
  [victim_loop(r) EXCEPT !.replacer.last = 0]

ClockReplacer_victim(r) == victim_loop(r)

ClockReplacer_pin_noop(r, frame_id) == r
ClockReplacer_pin(r, frame_id) ==
  IF r.frame_holder[frame_id] # NO_FRAME
  THEN [r EXCEPT !.frame_holder[frame_id] = NO_FRAME, !.size = @ - 1]
  ELSE r

ClockReplacer_unpin_recount(r, frame_id) ==
  [r EXCEPT !.size = @ + 1, !.frame_holder[frame_id] = REF_ONE]

ClockReplacer_unpin_uncounted(r, frame_id) ==
  [r EXCEPT !.frame_holder[frame_id] = REF_ONE]

ClockReplacer_unpin(r, frame_id) ==
  [r EXCEPT !.size = IF r.frame_holder[frame_id] = NO_FRAME THEN @ + 1 ELSE @,
            !.frame_holder[frame_id] = REF_ONE]

(***************************************************************************)
(* FakeDiskManager (src/storage/disk/disk_manager.rs)                       *)
(***************************************************************************)
\* fake_file is vec![0; PAGE_SIZE * MAX_FILE_PAGES]; the model keeps the pages
\* 0..max_pid of it, the only ones a call of the model reads or writes
FakeDiskManager_new(max_pid) ==
  [page_counter |-> 0, fake_file |-> [p \in 0 .. max_pid |-> 0]]

\* allocate_page: Err("Exceeded max page.") only once page_counter > MAX_FILE_PAGES
Fake_allocate_page(dm) ==
  IF dm.page_counter > MAX_FILE_PAGES
  THEN [ok |-> FALSE, pid |-> None, dm |-> dm]
  ELSE [ok |-> TRUE, pid |-> dm.page_counter,
        dm |-> [dm EXCEPT !.page_counter = @ + 1]]

\* write_page / read_page panic for page_id > MAX_FILE_PAGES ("Illegal page
\* id.") and, indexing fake_file out of bounds, for page_id = MAX_FILE_PAGES
Fake_io_panics(page_id) == page_id >= MAX_FILE_PAGES

Fake_write_page_lost(dm, page_id, page_data) == dm
Fake_write_page(dm, page_id, page_data) ==
  [dm EXCEPT !.fake_file[page_id] = page_data]

Fake_read_page(dm, page_id) == dm.fake_file[page_id]

\* deallocate_page: Ok(true), nothing else
Fake_deallocate_page(dm, page_id) == TRUE

(***************************************************************************)
(* BufferPoolManager (src/buffer/buffer_pool_manager.rs)                    *)
(***************************************************************************)
\* pushes pool_size - i - 1 for i in 0..pool_size: frame pool_size-1 is popped first
build_full_free_list(pool_size) == [i \in 1 .. pool_size |-> pool_size - i]

build_empty_page_pool(pool_size) == [f \in 0 .. (pool_size - 1) |-> EMPTY_PAGE]

\* DashMap::remove / DashMap::insert / contains_key
Remove_kept(pt, pid) == pt
Remove(pt, pid) == [p \in (DOMAIN pt) \ {pid} |-> pt[p]]
Insert(pt, pid, fid) == [p \in (DOMAIN pt) \cup {pid} |-> IF p = pid THEN fid ELSE pt[p]]
contains_key_never(pt, pid) == FALSE
contains_key(pt, pid) == pid \in DOMAIN pt

Event(ev, pid, arg) == [ev |-> ev, pid |-> pid, arg |-> arg]

get_available_frame_no_pop(fl, r) ==
  IF fl # <<>>
  THEN [ok |-> TRUE, fid |-> Head(fl), free_list |-> fl, replacer |-> r,
        src |-> "free"]
  ELSE LET v == ClockReplacer_victim(r)
       IN IF v.fid = None
          THEN [ok |-> FALSE, fid |-> None, free_list |-> fl,
                replacer |-> v.replacer, src |-> "none"]
          ELSE [ok |-> TRUE, fid |-> v.fid, free_list |-> fl,
                replacer |-> v.replacer, src |-> "victim"]

\* free list first, then the replacer; Err("Out of memory to allocate page.")
get_available_frame(fl, r) ==
  IF fl # <<>>
  THEN [ok |-> TRUE, fid |-> Head(fl), free_list |-> Tail(fl), replacer |-> r,
        src |-> "free"]
  ELSE LET v == ClockReplacer_victim(r)
       IN IF v.fid = None
          THEN [ok |-> FALSE, fid |-> None, free_list |-> fl,
                replacer |-> v.replacer, src |-> "none"]
          ELSE [ok |-> TRUE, fid |-> v.fid, free_list |-> fl,
                replacer |-> v.replacer, src |-> "victim"]

\* update_page(fid, new_pid, new_page); panic: one of its unwraps or a u64
\* overflow aborts the process
update_page(pt, bp, r, dm, checks, fid, new_pid, new_page) ==
  LET page == bp[fid]
      wr == Page_is_dirty(page)
      dm1 == IF wr /\ ~Fake_io_panics(page.id)
             THEN Fake_write_page(dm, page.id, page.data) ELSE dm
      ev1 == IF wr THEN <<Event("write_page", page.id, page.data)>> ELSE <<>>
      pt1 == Remove(pt, page.id)
      pt2 == Insert(pt1, new_pid, fid)
      pg1 == Page_pin([Page_set_dirty(page, IF wr THEN FALSE ELSE page.dirty_flag)
                         EXCEPT !.id = new_pid])
      rd == ~new_page
      pg2 == IF rd /\ ~Fake_io_panics(new_pid)
             THEN [pg1 EXCEPT !.data = Fake_read_page(dm1, new_pid)] ELSE pg1
  IN [panic |-> \/ (wr /\ Fake_io_panics(page.id))
                \/ (checks /\ Page_pin_overflows(page))
                \/ (rd /\ Fake_io_panics(new_pid)),
      page_table |-> pt2,
      buffer_pool |-> [bp EXCEPT ![fid] = pg2],
      replacer |-> ClockReplacer_pin(r, fid),
      disk_manager |-> dm1,
      events |-> ev1 \o <<Event("remove", page.id, fid), Event("insert", new_pid, fid)>>
                     \o (IF rd THEN <<Event("read_page", new_pid, None)>> ELSE <<>>)]

Ret(op, pid, is_dirty, res, fid, src, events) ==
  [op |-> op, pid |-> pid, is_dirty |-> is_dirty, res |-> res, fid |-> fid, src |-> src,
   events |-> events]

\* the process aborts: nothing runs afterwards
Panic(op, pid, arg) ==
  /\ panicked' = TRUE
  /\ ret' = Ret(op, None, FALSE, "panic", None, "none", <<>>)
  /\ UNCHANGED <<poolVars, overflow_checks>>

\* the frame reference the last call handed out, None when it handed out none
\* (the borrow of the pool ends with the next call)
lease ==
  IF ret.op \in {"fetch_page", "new_page"} /\ ret.res = "Ok" THEN ret.fid ELSE None

\* fetch_page(pid)
fetch_page(pid) ==
  /\ ~panicked
  /\ IF contains_key(page_table, pid)
     THEN LET fid == page_table[pid]
          IN IF overflow_checks /\ Page_pin_overflows(buffer_pool[fid])
             THEN Panic("fetch_page", pid, None)
             ELSE /\ PinBounded(buffer_pool[fid])
                  /\ replacer' = ClockReplacer_pin(replacer, fid)
                  /\ buffer_pool' = [buffer_pool EXCEPT ![fid] = Page_pin(@)]
                  /\ ret' = Ret("fetch_page", pid, FALSE, "Ok", fid, "hit", <<>>)
                  /\ UNCHANGED <<page_table, free_list, disk_manager,
                                 overflow_checks, panicked>>
     ELSE LET g == get_available_frame(free_list, replacer)
          IN IF ~g.ok
             THEN /\ replacer' = g.replacer
                  /\ ret' = Ret("fetch_page", None, FALSE, "OutOfMemory", None, "none", <<>>)
                  /\ UNCHANGED <<page_table, free_list, buffer_pool, disk_manager,
                                 overflow_checks, panicked>>
             ELSE LET u == update_page(page_table, buffer_pool, g.replacer,
                                       disk_manager, overflow_checks, g.fid, pid, FALSE)
                  IN IF u.panic
                     THEN Panic("fetch_page", pid, None)
                     ELSE /\ PinBounded(buffer_pool[g.fid])
                          /\ page_table' = u.page_table
                          /\ free_list' = g.free_list
                          /\ buffer_pool' = u.buffer_pool
                          /\ replacer' = u.replacer
                          /\ disk_manager' = u.disk_manager
                          /\ ret' = Ret("fetch_page", pid, FALSE, "Ok", g.fid, g.src, u.events)
                          /\ UNCHANGED <<overflow_checks, panicked>>

\* new_page()
new_page ==
  /\ ~panicked
  /\ LET g == get_available_frame(free_list, replacer)
     IN IF ~g.ok
        THEN /\ replacer' = g.replacer
             /\ ret' = Ret("new_page", None, FALSE, "OutOfMemory", None, "none", <<>>)
             /\ UNCHANGED <<page_table, free_list, buffer_pool, disk_manager,
                            overflow_checks, panicked>>
        ELSE LET a == Fake_allocate_page(disk_manager)
             IN IF ~a.ok
                THEN \* the ? returns; the frame taken above is not given back
                     /\ free_list' = g.free_list
                     /\ replacer' = g.replacer
                     /\ ret' = Ret("new_page", None, FALSE, "ExceededMaxPage", g.fid, g.src, <<>>)
                     /\ UNCHANGED <<page_table, buffer_pool, disk_manager,
                                    overflow_checks, panicked>>
                ELSE LET u == update_page(page_table, buffer_pool, g.replacer,
                                          a.dm, overflow_checks, g.fid, a.pid, TRUE)
                     IN /\ a.pid \in DOMAIN disk_manager.fake_file \/ a.pid = MAX_FILE_PAGES
                        /\ IF u.panic
                           THEN Panic("new_page", a.pid, None)
                           ELSE /\ PinBounded(buffer_pool[g.fid])
                                /\ page_table' = u.page_table
                                /\ free_list' = g.free_list
                                /\ buffer_pool' = u.buffer_pool
                                /\ replacer' = u.replacer
                                /\ disk_manager' = u.disk_manager
                                /\ ret' = Ret("new_page", a.pid, FALSE, "Ok", g.fid, g.src,
                                              <<Event("allocate_page", a.pid, None)>> \o u.events)
                                /\ UNCHANGED <<overflow_checks, panicked>>

\* the holder of the reference fetch_page/new_page returned writes the page
\* bytes through it (get_data_mut) before the next call of the pool
get_data_mut(d) ==
  /\ ~panicked
  /\ lease # None
  /\ buffer_pool[lease].data # d
  /\ buffer_pool' = [buffer_pool EXCEPT ![lease].data = d]
  /\ UNCHANGED <<page_table, free_list, replacer, disk_manager, overflow_checks,
                 panicked, ret>>

\* unpin_page(pid, is_dirty)
unpin_page(pid, is_dirty) ==
  /\ ~panicked
  /\ IF contains_key(page_table, pid)
     THEN LET fid == page_table[pid]
          IN IF overflow_checks /\ Page_unpin_overflows(buffer_pool[fid])
             THEN Panic("unpin_page", pid, is_dirty)
             ELSE /\ UnpinBounded(buffer_pool[fid])
                  /\ buffer_pool' = [buffer_pool EXCEPT
                                       ![fid] = Page_set_dirty(Page_unpin(@), is_dirty)]
                  /\ replacer' = ClockReplacer_unpin(replacer, fid)
                  /\ ret' = Ret("unpin_page", pid, is_dirty, "true", fid, "none", <<>>)
                  /\ UNCHANGED <<page_table, free_list, disk_manager,
                                 overflow_checks, panicked>>
     ELSE /\ ret' = Ret("unpin_page", None, FALSE, "false", None, "none", <<>>)
          /\ UNCHANGED <<poolVars, overflow_checks, panicked>>

\* flush_page(pid)
flush_page(pid) ==
  /\ ~panicked
  /\ IF contains_key(page_table, pid)
     THEN LET page == buffer_pool[page_table[pid]]
          IN IF Fake_io_panics(page.id)
             THEN Panic("flush_page", pid, None)
             ELSE /\ disk_manager' = Fake_write_page(disk_manager, page.id, page.data)
                  /\ ret' = Ret("flush_page", pid, FALSE, "true", page_table[pid], "none",
                                <<Event("write_page", page.id, page.data)>>)
                  /\ UNCHANGED <<page_table, free_list, buffer_pool, replacer,
                                 overflow_checks, panicked>>
     ELSE /\ ret' = Ret("flush_page", None, FALSE, "false", None, "none", <<>>)
          /\ UNCHANGED <<poolVars, overflow_checks, panicked>>

\* delete_page(pid)
delete_page(pid) ==
  /\ ~panicked
  /\ LET dealloc == <<Event("deallocate_page", pid, None)>>
         res == IF Fake_deallocate_page(disk_manager, pid) THEN "true" ELSE "false"
     IN IF contains_key(page_table, pid)
        THEN LET fid == page_table[pid]
                 page == buffer_pool[fid]
             IN IF Page_get_pin_count(page) # 0
                THEN /\ ret' = Ret("delete_page", None, FALSE, "InUse", None, "none", <<>>)
                     /\ UNCHANGED <<poolVars, overflow_checks, panicked>>
                ELSE IF \/ (page.dirty_flag /\ Fake_io_panics(page.id))
                        \/ Len(free_list) = Cardinality(DOMAIN buffer_pool)
                     THEN Panic("delete_page", pid, None)
                     ELSE /\ disk_manager' = IF page.dirty_flag
                                             THEN Fake_write_page(disk_manager, page.id, page.data)
                                             ELSE disk_manager
                          /\ free_list' = Append(free_list, fid)
                          /\ page_table' = Remove(page_table, pid)
                          /\ ret' = Ret("delete_page", pid, FALSE, res, fid, "none",
                                        (IF page.dirty_flag
                                         THEN <<Event("write_page", page.id, page.data)>>
                                         ELSE <<>>)
                                        \o <<Event("remove", pid, fid)>> \o dealloc)
                          /\ UNCHANGED <<buffer_pool, replacer, overflow_checks, panicked>>
        ELSE /\ ret' = Ret("delete_page", None, FALSE, res, None, "none", <<>>)
             /\ UNCHANGED <<poolVars, overflow_checks, panicked>>

(***************************************************************************)
(* Spec: the pool of new_default(PoolSize) under any sequence of calls of   *)
(* one caller at a time.  The callers of this specification do not write    *)
(* page bytes (no call of the pool reads them to decide anything); DataSpec *)
(* below adds the writes, on a smaller pool.                                *)
(***************************************************************************)
NoGhost == [n |-> 0, written |-> None, told |-> FALSE]

\* BufferPoolManager::new(pool_size, ClockReplacer::new(pool_size), disk): the
\* disk is a FakeDiskManager that has handed out the ids below max_pid, or one
\* that cannot allocate any more
InitPool(pool_size, max_pid, builds) ==
  /\ page_table = <<>>
  /\ free_list = build_full_free_list(pool_size)
  /\ buffer_pool = build_empty_page_pool(pool_size)
  /\ replacer = ClockReplacer_new(pool_size)
  /\ \E c \in {max_pid, MAX_FILE_PAGES + 1} :
       disk_manager = [FakeDiskManager_new(max_pid) EXCEPT !.page_counter = c]
  /\ overflow_checks \in builds
  /\ panicked = FALSE
  /\ ret = Ret("new", None, FALSE, "Ok", None, "none", <<>>)
  /\ ghost = [p \in 0 .. max_pid |-> NoGhost]

\* built with overflow checks (the dev and test profile): a u64 that leaves its
\* range panics
Init == InitPool(PoolSize, MaxPid, {TRUE}) /\ threads = <<>>

\* callers fetch the pages the disk has handed out
Allocated(pid) == pid < disk_manager.page_counter

FetchPage(pid) == Allocated(pid) /\ fetch_page(pid) /\ UNCHANGED <<ghost, threads>>
NewPage == new_page /\ UNCHANGED <<ghost, threads>>
UnpinPage(pid, is_dirty) == unpin_page(pid, is_dirty) /\ UNCHANGED <<ghost, threads>>
FlushPage(pid) == flush_page(pid) /\ UNCHANGED <<ghost, threads>>
DeletePage(pid) == delete_page(pid) /\ UNCHANGED <<ghost, threads>>

Next ==
  \/ \E pid \in PageIds : FetchPage(pid)
  \/ NewPage
  \/ \E pid \in PageIds, is_dirty \in BOOLEAN : UnpinPage(pid, is_dirty)
  \/ \E pid \in PageIds : FlushPage(pid)
  \/ \E pid \in PageIds : DeletePage(pid)

Spec == Init /\ [][Next]_vars

(***************************************************************************)
(* DataSpec: the same calls on a pool of DataPoolSize frames and the page   *)
(* ids 0..DataMaxPid, with callers that write page bytes through the        *)
(* reference they were handed.                                              *)
(***************************************************************************)
DataPageIds == 0 .. DataMaxPid

\* built with or without overflow checks
DataInit == InitPool(DataPoolSize, DataMaxPid, BOOLEAN) /\ threads = <<>>

WriteData(d) == get_data_mut(d) /\ UNCHANGED <<ghost, threads>>

DataNext ==
  \/ \E pid \in DataPageIds : FetchPage(pid)
  \/ NewPage
  \/ \E d \in Data : WriteData(d)
  \/ \E pid \in DataPageIds, is_dirty \in BOOLEAN : UnpinPage(pid, is_dirty)
  \/ \E pid \in DataPageIds : FlushPage(pid)
  \/ \E pid \in DataPageIds : DeletePage(pid)

DataSpec == DataInit /\ [][DataNext]_vars

(***************************************************************************)
(* LeaseSpec: DataSpec with callers that keep the contract of the leases:   *)
(* one unpin_page per acquisition and none without.  ghost is their books,  *)
(* per page id: n, the leases they hold; written, the bytes they last wrote *)
(* into the page; told, whether an unpin_page since that write passed       *)
(* is_dirty = true.                                                         *)
(***************************************************************************)
LeaseFetch(pid) ==
  /\ ghost[pid].n < MaxLease
  /\ Allocated(pid)
  /\ fetch_page(pid)
  /\ ghost' = IF ret'.res = "Ok" THEN [ghost EXCEPT ![pid].n = @ + 1] ELSE ghost
  /\ UNCHANGED threads

LeaseNew ==
  /\ new_page
  /\ ghost' = IF ret'.res = "Ok"
              THEN [ghost EXCEPT ![ret'.pid] = [n |-> ghost[ret'.pid].n + 1,
                                                written |-> None, told |-> FALSE]]
              ELSE ghost
  /\ UNCHANGED threads

LeaseWrite(d) ==
  /\ get_data_mut(d)
  /\ ghost' = [ghost EXCEPT ![ret.pid].written = d, ![ret.pid].told = FALSE]
  /\ UNCHANGED threads

LeaseUnpin(pid, is_dirty) ==
  /\ ghost[pid].n > 0
  /\ unpin_page(pid, is_dirty)
  /\ ghost' = [ghost EXCEPT ![pid].n = @ - 1,
                            ![pid].told = @ \/ (/\ is_dirty
                                                  /\ ghost[pid].written # None
                                                  /\ ret'.res = "true")]
  /\ UNCHANGED threads

LeaseFlush(pid) == flush_page(pid) /\ UNCHANGED <<ghost, threads>>

LeaseDelete(pid) ==
  /\ delete_page(pid)
  /\ ghost' = IF ret'.res \in {"true", "false"}
              THEN [ghost EXCEPT ![pid].written = None, ![pid].told = FALSE]
              ELSE ghost
  /\ UNCHANGED threads

LeaseNext ==
  \/ \E pid \in DataPageIds : LeaseFetch(pid)
  \/ LeaseNew
  \/ \E d \in Data : LeaseWrite(d)
  \/ \E pid \in DataPageIds, is_dirty \in BOOLEAN : LeaseUnpin(pid, is_dirty)
  \/ \E pid \in DataPageIds : LeaseFlush(pid)
  \/ \E pid \in DataPageIds : LeaseDelete(pid)

LeaseSpec == DataInit /\ [][LeaseNext]_vars

(***************************************************************************)
(* ConcSpec: fetch_page called from ConcThreads threads and run a step at a  *)
(* time: the page-table lookup, the frame acquisition, update_page up to    *)
(* its page-table insert, and update_page's metadata update.  The frame's   *)
(* write lock is held from the first to the second half of update_page.     *)
(* A thread holds at most one lease and gives it back with unpin_page.      *)
(***************************************************************************)
Threads == 1 .. ConcThreads
ConcPageIds == 0 .. ConcMaxPid
Idle == [pc |-> "idle", pid |-> None, fid |-> None, src |-> "none"]

ConcInit ==
  /\ InitPool(PoolSize, ConcMaxPid, {TRUE})
  /\ threads = [t \in Threads |-> Idle]

\* frame f is write-locked by a thread other than t
Locked(f, t) ==
  \E u \in Threads \ {t} : threads[u].pc = "metadata" /\ threads[u].fid = f

ConcUnchanged == UNCHANGED <<overflow_checks, ret, ghost>>

\* self.page_table.contains_key(&pid)
ConcLookup(t, pid) ==
  /\ ~panicked
  /\ threads[t] = Idle
  /\ Allocated(pid)
  /\ threads' = [threads EXCEPT ![t] =
                   [pc |-> IF contains_key(page_table, pid) THEN "hit" ELSE "acquire",
                    pid |-> pid, fid |-> None, src |-> "none"]]
  /\ UNCHANGED <<poolVars, panicked>>
  /\ ConcUnchanged

\* get_exist_frame(pid) and replacer.pin(fid); the unwrap panics when the
\* mapping has gone since the lookup
ConcGetExist(t) ==
  /\ ~panicked
  /\ threads[t].pc = "hit"
  /\ IF contains_key(page_table, threads[t].pid)
     THEN LET fid == page_table[threads[t].pid]
          IN /\ replacer' = ClockReplacer_pin(replacer, fid)
             /\ threads' = [threads EXCEPT ![t].pc = "hit_pin", ![t].fid = fid]
             /\ UNCHANGED panicked
     ELSE /\ panicked' = TRUE
          /\ UNCHANGED <<replacer, threads>>
  /\ UNCHANGED <<page_table, free_list, buffer_pool, disk_manager>>
  /\ ConcUnchanged

\* p.write().unwrap(); guard.pin(); return Ok(p)
ConcHitPin(t) ==
  /\ ~panicked
  /\ threads[t].pc = "hit_pin"
  /\ ~Locked(threads[t].fid, t)
  /\ PinBounded(buffer_pool[threads[t].fid])
  /\ buffer_pool' = [buffer_pool EXCEPT ![threads[t].fid] = Page_pin(@)]
  /\ threads' = [threads EXCEPT ![t].pc = "idle", ![t].src = "hit"]
  /\ UNCHANGED <<page_table, free_list, replacer, disk_manager, panicked>>
  /\ ConcUnchanged

\* let fid = self.get_available_frame()?
ConcAcquire(t) ==
  /\ ~panicked
  /\ threads[t].pc = "acquire"
  /\ LET g == get_available_frame(free_list, replacer)
     IN /\ free_list' = g.free_list
        /\ replacer' = g.replacer
        /\ threads' = [threads EXCEPT ![t] =
                         IF g.ok THEN [@ EXCEPT !.pc = "insert", !.fid = g.fid, !.src = g.src]
                         ELSE Idle]
  /\ UNCHANGED <<page_table, buffer_pool, disk_manager, panicked>>
  /\ ConcUnchanged

\* update_page, first half: replacer.pin, the frame's write lock, the
\* write-back of a dirty frame, page_table.remove and page_table.insert
ConcInsert(t) ==
  /\ ~panicked
  /\ threads[t].pc = "insert"
  /\ ~Locked(threads[t].fid, t)
  /\ LET fid == threads[t].fid
         page == buffer_pool[fid]
         wr == Page_is_dirty(page)
     IN /\ replacer' = ClockReplacer_pin(replacer, fid)
        /\ disk_manager' = IF wr THEN Fake_write_page(disk_manager, page.id, page.data)
                           ELSE disk_manager
        /\ buffer_pool' = [buffer_pool EXCEPT
                             ![fid] = IF wr THEN Page_set_dirty(@, FALSE) ELSE @]
        /\ page_table' = Insert(Remove(page_table, page.id), threads[t].pid, fid)
  /\ threads' = [threads EXCEPT ![t].pc = "metadata"]
  /\ UNCHANGED <<free_list, panicked>>
  /\ ConcUnchanged

\* update_page, second half: set_id, pin, read_page; the lock is dropped
ConcMetadata(t) ==
  /\ ~panicked
  /\ threads[t].pc = "metadata"
  /\ PinBounded(buffer_pool[threads[t].fid])
  /\ buffer_pool' = [buffer_pool EXCEPT ![threads[t].fid] =
                       [Page_pin(@) EXCEPT
                          !.id = threads[t].pid,
                          !.data = Fake_read_page(disk_manager, threads[t].pid)]]
  /\ threads' = [threads EXCEPT ![t].pc = "idle"]
  /\ UNCHANGED <<page_table, free_list, replacer, disk_manager, panicked>>
  /\ ConcUnchanged

\* the thread gives its lease back: unpin_page(pid, false), under the lock of
\* the frame the page table names
ConcUnpin(t) ==
  /\ threads[t].pc = "idle"
  /\ threads[t].pid # None
  /\ contains_key(page_table, threads[t].pid) => ~Locked(page_table[threads[t].pid], t)
  /\ unpin_page(threads[t].pid, FALSE)
  /\ threads' = [threads EXCEPT ![t] = Idle]
  /\ UNCHANGED ghost

ConcNext ==
  \E t \in Threads :
    \/ \E pid \in ConcPageIds : ConcLookup(t, pid)
    \/ ConcGetExist(t)
    \/ ConcHitPin(t)
    \/ ConcAcquire(t)
    \/ ConcInsert(t)
    \/ ConcMetadata(t)
    \/ ConcUnpin(t)

ConcSpec == ConcInit /\ [][ConcNext]_vars

(***************************************************************************)
(* LastPageSpec: DataSpec over a FakeDiskManager that has handed out every  *)
(* id below MAX_FILE_PAGES.  allocate_page refuses only page_counter >      *)
(* MAX_FILE_PAGES, so the next new_page gets the id MAX_FILE_PAGES, which    *)
(* lies behind the end of fake_file: write_page and read_page fail for it.  *)
(***************************************************************************)
LastPageIds == DataPageIds \cup {MAX_FILE_PAGES}

LastPageInit ==
  /\ page_table = <<>>
  /\ free_list = build_full_free_list(DataPoolSize)
  /\ buffer_pool = build_empty_page_pool(DataPoolSize)
  /\ replacer = ClockReplacer_new(DataPoolSize)
  /\ disk_manager = [FakeDiskManager_new(DataMaxPid) EXCEPT !.page_counter = MAX_FILE_PAGES]
  /\ overflow_checks \in BOOLEAN
  /\ panicked = FALSE
  /\ ret = Ret("new", None, FALSE, "Ok", None, "none", <<>>)
  /\ ghost = [p \in DataPageIds |-> NoGhost]
  /\ threads = <<>>

LastPageNext ==
  \/ \E pid \in LastPageIds : FetchPage(pid)
  \/ NewPage
  \/ \E d \in Data : WriteData(d)
  \/ \E pid \in LastPageIds, is_dirty \in BOOLEAN : UnpinPage(pid, is_dirty)
  \/ \E pid \in LastPageIds : FlushPage(pid)
  \/ \E pid \in LastPageIds : DeletePage(pid)

LastPageSpec == LastPageInit /\ [][LastPageNext]_vars

(***************************************************************************)
(* ReplacerConcSpec: a ClockReplacer of ReplacerFrames frames called by     *)
(* ReplacerThreads threads, a step at a time: taking the frame_holder       *)
(* mutex, each write of a marker, each update of the atomic size, each       *)
(* iteration of victim's loop.  The mutex is held by the thread whose pc is *)
(* inside a critical section and is dropped when the call returns.          *)
(* ghost[f]: victim() has returned f and no unpin(f) has set its marker     *)
(* since.                                                                   *)
(***************************************************************************)
RFrames == 0 .. (ReplacerFrames - 1)
RThreads == 1 .. ReplacerThreads
RIdle == [pc |-> "idle", f |-> None]
CriticalPcs == {"pin_test", "pin_dec", "unpin_test", "unpin_mark", "victim_loop", "victim_dec"}
MutexHeld == \E t \in RThreads : threads[t].pc \in CriticalPcs

ReplacerInitRest ==
  /\ page_table = <<>>
  /\ free_list = <<>>
  /\ buffer_pool = <<>>
  /\ disk_manager = FakeDiskManager_new(0)
  /\ overflow_checks = TRUE
  /\ panicked = FALSE
  /\ ret = Ret("new", None, FALSE, "Ok", None, "none", <<>>)
  /\ ghost = [f \in RFrames |-> FALSE]

ReplacerRest == UNCHANGED <<page_table, free_list, buffer_pool, disk_manager,
                            overflow_checks, panicked>>

ReplacerConcInit ==
  /\ replacer = ClockReplacer_new(ReplacerFrames)
  /\ threads = [t \in RThreads |-> RIdle]
  /\ ReplacerInitRest

\* pin: let mut guard = self.frame_holder.lock().unwrap()
RPinLock(t, f) ==
  /\ threads[t] = RIdle /\ ~MutexHeld
  /\ threads' = [threads EXCEPT ![t] = [pc |-> "pin_test", f |-> f]]
  /\ UNCHANGED <<replacer, ghost, ret>> /\ ReplacerRest

\* pin: if guard[frame_id] != NO_FRAME { guard[frame_id] = NO_FRAME; .. }
RPinTest(t) ==
  /\ threads[t].pc = "pin_test"
  /\ IF replacer.frame_holder[threads[t].f] # NO_FRAME
     THEN /\ replacer' = [replacer EXCEPT !.frame_holder[threads[t].f] = NO_FRAME]
          /\ threads' = [threads EXCEPT ![t].pc = "pin_dec"]
          /\ UNCHANGED ret
     ELSE /\ threads' = [threads EXCEPT ![t] = RIdle]
          /\ ret' = Ret("pin", None, FALSE, "Ok", threads[t].f, "none", <<>>)
          /\ UNCHANGED replacer
  /\ UNCHANGED ghost /\ ReplacerRest

\* pin: self.size.fetch_sub(1, ..); the guard is dropped
RPinDec(t) ==
  /\ threads[t].pc = "pin_dec"
  /\ replacer' = [replacer EXCEPT !.size = @ - 1]
  /\ threads' = [threads EXCEPT ![t] = RIdle]
  /\ ret' = Ret("pin", None, FALSE, "Ok", threads[t].f, "none", <<>>)
  /\ UNCHANGED ghost /\ ReplacerRest

\* unpin: let mut guard = self.frame_holder.lock().unwrap()
RUnpinLock(t, f) ==
  /\ threads[t] = RIdle /\ ~MutexHeld
  /\ threads' = [threads EXCEPT ![t] = [pc |-> "unpin_test", f |-> f]]
  /\ UNCHANGED <<replacer, ghost, ret>> /\ ReplacerRest

unpin_fetch_add_always(r, frame_id) == [r EXCEPT !.size = @ + 1]

\* unpin: if guard[frame_id] == NO_FRAME { self.size.fetch_add(1, ..); }
unpin_fetch_add(r, frame_id) ==
  IF r.frame_holder[frame_id] = NO_FRAME THEN [r EXCEPT !.size = @ + 1] ELSE r

RUnpinTest(t) ==
  /\ threads[t].pc = "unpin_test"
  /\ replacer' = unpin_fetch_add(replacer, threads[t].f)
  /\ threads' = [threads EXCEPT ![t].pc = "unpin_mark"]
  /\ UNCHANGED <<ghost, ret>> /\ ReplacerRest

\* unpin: guard[frame_id] = REF_ONE; the guard is dropped
RUnpinMark(t) ==
  /\ threads[t].pc = "unpin_mark"
  /\ replacer' = [replacer EXCEPT !.frame_holder[threads[t].f] = REF_ONE]
  /\ threads' = [threads EXCEPT ![t] = RIdle]
  /\ ghost' = [ghost EXCEPT ![threads[t].f] = FALSE]
  /\ ret' = Ret("unpin", None, FALSE, "Ok", threads[t].f, "none", <<>>)
  /\ ReplacerRest

\* victim: if self.size.load(..) == 0 { return None; }, before the lock
RVictimCall(t) ==
  /\ threads[t] = RIdle
  /\ IF replacer.size = 0
     THEN /\ ret' = Ret("victim", None, FALSE, "None", None, "none", <<>>)
          /\ UNCHANGED threads
     ELSE /\ threads' = [threads EXCEPT ![t].pc = "victim_lock"]
          /\ UNCHANGED ret
  /\ UNCHANGED <<replacer, ghost>> /\ ReplacerRest

\* victim: let mut guard = self.frame_holder.lock().unwrap()
RVictimLock(t) ==
  /\ threads[t].pc = "victim_lock" /\ ~MutexHeld
  /\ threads' = [threads EXCEPT ![t].pc = "victim_loop"]
  /\ UNCHANGED <<replacer, ghost, ret>> /\ ReplacerRest

victim_take_kept(r, last) == r

\* victim: guard[last] = NO_FRAME
victim_take(r, last) == [r EXCEPT !.frame_holder[last] = NO_FRAME]

\* victim: one iteration of the loop
RVictimLoop(t) ==
  /\ threads[t].pc = "victim_loop"
  /\ IF replacer.size = 0
     THEN /\ threads' = [threads EXCEPT ![t] = RIdle]
          /\ ret' = Ret("victim", None, FALSE, "None", None, "none", <<>>)
          /\ UNCHANGED replacer
     ELSE LET last == replacer.last
              last_value == replacer.frame_holder[last]
              nxt == IF last + 1 = Cardinality(DOMAIN replacer.frame_holder)
                     THEN 0 ELSE last + 1
          IN IF last_value = REF_ZERO
             THEN /\ replacer' = victim_take(replacer, last)
                  /\ threads' = [threads EXCEPT ![t] = [pc |-> "victim_dec", f |-> last]]
                  /\ UNCHANGED ret
             ELSE /\ replacer' = [replacer EXCEPT
                                    !.frame_holder[last] =
                                       IF last_value = REF_ONE THEN REF_ZERO ELSE @,
                                    !.last = nxt]
                  /\ UNCHANGED <<threads, ret>>
  /\ UNCHANGED ghost /\ ReplacerRest

\* victim: self.size.fetch_sub(1, ..); return Some(last)
RVictimDec(t) ==
  /\ threads[t].pc = "victim_dec"
  /\ replacer' = [replacer EXCEPT !.size = @ - 1]
  /\ threads' = [threads EXCEPT ![t] = RIdle]
  /\ ghost' = [ghost EXCEPT ![threads[t].f] = TRUE]
  /\ ret' = Ret("victim", None, FALSE, "Some", threads[t].f, "none", <<>>)
  /\ ReplacerRest

ReplacerConcNext ==
  \E t \in RThreads :
    \/ \E f \in RFrames : RPinLock(t, f)
    \/ RPinTest(t)
    \/ RPinDec(t)
    \/ \E f \in RFrames : RUnpinLock(t, f)
    \/ RUnpinTest(t)
    \/ RUnpinMark(t)
    \/ RVictimCall(t)
    \/ RVictimLock(t)
    \/ RVictimLoop(t)
    \/ RVictimDec(t)

ReplacerConcSpec == ReplacerConcInit /\ [][ReplacerConcNext]_vars

Candidates(r) == {f \in DOMAIN r.frame_holder : r.frame_holder[f] # NO_FRAME}

(***************************************************************************)
(* ReplacerSpec: one caller of a ClockReplacer of SeqFrames frames, as in   *)
(* tests::test_clock_replacer.  ghost remembers the last pin or unpin, the  *)
(* candidates it left, and the frames victim() has returned since.          *)
(***************************************************************************)
SeqFrameIds == 0 .. (SeqFrames - 1)

ReplacerInit ==
  /\ replacer = ClockReplacer_new(SeqFrames)
  /\ threads = <<>>
  /\ page_table = <<>>
  /\ free_list = <<>>
  /\ buffer_pool = <<>>
  /\ disk_manager = FakeDiskManager_new(0)
  /\ overflow_checks = TRUE
  /\ panicked = FALSE
  /\ ret = Ret("new", None, FALSE, "Ok", None, "none", <<>>)
  /\ ghost = [after |-> "new", f |-> None, cands |-> {}, got |-> <<>>, inspected |-> 0]

ReplacerPin(f) ==
  /\ replacer' = ClockReplacer_pin(replacer, f)
  /\ ret' = Ret("pin", None, FALSE, "Ok", f, "none", <<>>)
  /\ ghost' = [after |-> "pin", f |-> f, cands |-> Candidates(replacer'), got |-> <<>>,
               inspected |-> 0]
  /\ UNCHANGED threads /\ ReplacerRest

ReplacerUnpin(f) ==
  /\ replacer' = ClockReplacer_unpin(replacer, f)
  /\ ret' = Ret("unpin", None, FALSE, "Ok", f, "none", <<>>)
  /\ ghost' = [after |-> "unpin", f |-> f, cands |-> Candidates(replacer'), got |-> <<>>,
               inspected |-> 0]
  /\ UNCHANGED threads /\ ReplacerRest

ReplacerVictim ==
  LET v == ClockReplacer_victim(replacer)
  IN /\ replacer' = v.replacer
     /\ ret' = Ret("victim", None, FALSE, IF v.fid = None THEN "None" ELSE "Some",
                   v.fid, "none", <<>>)
     /\ ghost' = IF v.fid = None THEN [ghost EXCEPT !.inspected = v.inspected]
                 ELSE [ghost EXCEPT !.got = Append(@, v.fid), !.inspected = v.inspected]
     /\ UNCHANGED threads /\ ReplacerRest

ReplacerNext ==
  \/ \E f \in SeqFrameIds : ReplacerPin(f)
  \/ \E f \in SeqFrameIds : ReplacerUnpin(f)
  \/ ReplacerVictim

ReplacerSpec == ReplacerInit /\ [][ReplacerNext]_vars

(***************************************************************************)
(* Page layouts of the hash index (src/storage/page/hash_table_*_page.rs).  *)
(* A layout gives the sizes the code takes from the build: PAGE_SIZE,       *)
(* size_of::<usize>() (PageId and the BasicInfo fields), the sizes of the   *)
(* key and of the value, and the bytes of INVALID_PAGE_ID = usize::MAX.     *)
(* RealLayout is the build of the repository with the FakeKey / FakeValue   *)
(* of its tests (usize::MAX stands as the largest 32-bit signed integer);   *)
(* SmallLayout is a build scaled down to pages of 8 bytes, on which whole   *)
(* tables can be explored.                                                  *)
(***************************************************************************)
RealLayout ==
  [page_size |-> PAGE_SIZE, word |-> 8, key_size |-> 10, value_size |-> 20,
   invalid |-> INVALID_PAGE_ID]

SmallLayout ==
  [page_size |-> 8, word |-> 1, key_size |-> 1, value_size |-> 2, invalid |-> 255]

\* bincode of an unsigned integer or of a byte array built from one: width
\* bytes, least significant first
RECURSIVE LEByte(_, _)
LEByte(n, i) == IF i = 0 THEN n % 256 ELSE LEByte(n \div 256, i - 1)

\* bincode::deserialize of width bytes of data from offset from (0-based)
RECURSIVE LEValue(_, _, _)
LEValue(data, from, width) ==
  IF width = 0 THEN 0
  ELSE data[from + 1] + 256 * LEValue(data, from + 1, width - 1)

\* mem::size_of::<BasicInfo>(): three usize
BasicInfoSize(L) == 3 * L.word

\* BLOCK_PAGE_IDS_SIZE
BLOCK_PAGE_IDS_SIZE(L) == (L.page_size - BasicInfoSize(L)) \div L.word

HashTableHeaderPage_new(L, pid, size) ==
  [basic_info |-> [page_id |-> pid, size |-> size, next_idx |-> 0],
   block_page_ids |-> [i \in 0 .. (BLOCK_PAGE_IDS_SIZE(L) - 1) |-> L.invalid]]

\* add(pid): Err("Hash table header fulled.") when next_idx + 1 is the length
HashTableHeaderPage_add(h, pid) ==
  IF Cardinality(DOMAIN h.block_page_ids) = h.basic_info.next_idx + 1
  THEN h
  ELSE [h EXCEPT !.block_page_ids[h.basic_info.next_idx] = pid,
                 !.basic_info.next_idx = @ + 1]

\* set(pid, idx), as LinearProbeHashTable::insert_to_new_block calls it: the
\* directory entry of bucket idx becomes pid
HashTableHeaderPage_set_lost(h, pid, idx) == h
HashTableHeaderPage_set(h, pid, idx) == [h EXCEPT !.block_page_ids[idx] = pid]

\* get_block_page_id(idx), as LinearProbeHashTable calls it: None for an
\* unset entry
HashTableHeaderPage_get_block_page_id(L, h, idx) ==
  IF h.block_page_ids[idx] = L.invalid THEN None ELSE h.block_page_ids[idx]

\* serialize: bincode of basic_info, then of every directory entry
HashTableHeaderPage_serialize(L, h) ==
  [i \in 1 .. (BasicInfoSize(L) + BLOCK_PAGE_IDS_SIZE(L) * L.word) |->
     LET o == i - 1
     IN IF o < L.word THEN LEByte(h.basic_info.page_id, o)
        ELSE IF o < 2 * L.word THEN LEByte(h.basic_info.size, o - L.word)
        ELSE IF o < 3 * L.word THEN LEByte(h.basic_info.next_idx, o - 2 * L.word)
        ELSE LEByte(h.block_page_ids[(o - BasicInfoSize(L)) \div L.word],
                    (o - BasicInfoSize(L)) % L.word)]

\* deserialize: Err for a buffer that is not PAGE_SIZE long; the loop
\* for i in (basic_info_size..(page_data.len() - page_id_size)).step_by(page_id_size)
\* reads the entries that start before len - page_id_size, the others keep
\* INVALID_PAGE_ID
HashTableHeaderPage_deserialize(L, page_data) ==
  IF Len(page_data) # L.page_size
  THEN [ok |-> FALSE, header |-> None]
  ELSE [ok |-> TRUE,
        header |->
          [basic_info |-> [page_id |-> LEValue(page_data, 0, L.word),
                           size |-> LEValue(page_data, L.word, L.word),
                           next_idx |-> LEValue(page_data, 2 * L.word, L.word)],
           block_page_ids |->
             [j \in 0 .. (BLOCK_PAGE_IDS_SIZE(L) - 1) |->
                IF BasicInfoSize(L) + j * L.word < Len(page_data) - L.word
                THEN LEValue(page_data, BasicInfoSize(L) + j * L.word, L.word)
                ELSE L.invalid]]]

\* mem::size_of::<MappingType<K, V>>(): the key and the value are byte arrays,
\* which bincode writes as they are
MappingSize(L) == L.key_size + L.value_size

capacity_of_block(L) == (4 * L.page_size) \div (4 * MappingSize(L) + 1)

\* (capacity - 1) / 8 + 1, the length of each bitmap
BitmapLen(L) == (capacity_of_block(L) - 1) \div 8 + 1

\* Default::default() of the key and of the value: zero bytes
DefaultMapping == [key |-> 0, value |-> 0]

HashTableBlockPage_new(L) ==
  [occupied |-> [i \in 1 .. BitmapLen(L) |-> 0],
   readable |-> [i \in 1 .. BitmapLen(L) |-> 0],
   array |-> [i \in 0 .. (capacity_of_block(L) - 1) |-> DefaultMapping]]

BitOf(byte, bit_idx) == (byte \div (2 ^ bit_idx)) % 2

\* occupied(slot_idx) (is_occupied for LinearProbeHashTable):
\* occupied[byte_idx] | !(0x01 << bit_idx) == 0xff
HashTableBlockPage_occupied(b, slot_idx) ==
  BitOf(b.occupied[slot_idx \div 8 + 1], slot_idx % 8) = 1

\* set(slot_idx): occupied[byte_idx] |= 0x01 << bit_idx
HashTableBlockPage_set(b, slot_idx) ==
  IF HashTableBlockPage_occupied(b, slot_idx) THEN b
  ELSE [b EXCEPT !.occupied[slot_idx \div 8 + 1] = @ + 2 ^ (slot_idx % 8)]

\* insert(slot_idx, key, value): false on an occupied slot
HashTableBlockPage_insert(b, slot_idx, key, value) ==
  IF HashTableBlockPage_occupied(b, slot_idx)
  THEN [ok |-> FALSE, block |-> b]
  ELSE [ok |-> TRUE,
        block |-> HashTableBlockPage_set(
                    [b EXCEPT !.array[slot_idx] = [key |-> key, value |-> value]],
                    slot_idx)]

HashTableBlockPage_get(b, slot_idx) == b.array[slot_idx]

\* serialize: occupied, readable, then bincode of every mapping
HashTableBlockPage_serialize(L, b) ==
  [i \in 1 .. (2 * BitmapLen(L) + capacity_of_block(L) * MappingSize(L)) |->
     LET o == i - 1
         m == (o - 2 * BitmapLen(L)) \div MappingSize(L)
         mo == (o - 2 * BitmapLen(L)) % MappingSize(L)
     IN IF o < BitmapLen(L) THEN b.occupied[o + 1]
        ELSE IF o < 2 * BitmapLen(L) THEN b.readable[o - BitmapLen(L) + 1]
        ELSE IF mo < L.key_size THEN LEByte(b.array[m].key, mo)
        ELSE LEByte(b.array[m].value, mo - L.key_size)]

\* deserialize: the mappings are read at the offsets of
\* 2 * array_bit_size..(page_data.len() / mapping_type_size - 1) * mapping_type_size
\* stepped by mapping_type_size; the slots behind them keep the default
HashTableBlockPage_deserialize(L, page_data) ==
  LET data_end == (Len(page_data) \div MappingSize(L) - 1) * MappingSize(L)
  IN [occupied |-> [i \in 1 .. BitmapLen(L) |-> page_data[i]],
      readable |-> [i \in 1 .. BitmapLen(L) |-> page_data[BitmapLen(L) + i]],
      array |->
        [j \in 0 .. (capacity_of_block(L) - 1) |->
           LET i == 2 * BitmapLen(L) + j * MappingSize(L)
           IN IF i < data_end
              THEN [key |-> LEValue(page_data, i, L.key_size),
                    value |-> LEValue(page_data, i + L.key_size, L.value_size)]
              ELSE DefaultMapping]]

\* the copy of page_data into the bytes of a page, for i in 0..page_data.len()
CopyToPage(page_bytes, page_data) ==
  [i \in 1 .. Len(page_bytes) |->
     IF i <= Len(page_data) THEN page_data[i] ELSE page_bytes[i]]

ZeroPage(L) == [i \in 1 .. L.page_size |-> 0]

(***************************************************************************)
(* HeaderSpec: headers of the real layout built by new, add and set (the    *)
(* directory indexes written are the first two and the last two), then      *)
(* serialized and deserialized.  ghost is the header in memory, ret the     *)
(* last call with the bytes and the header it produced.                     *)
(***************************************************************************)
HeaderIdxs == {0, 1, BLOCK_PAGE_IDS_SIZE(RealLayout) - 2, BLOCK_PAGE_IDS_SIZE(RealLayout) - 1}
HeaderBlockPids == {3}

CodecRet(op, raw, out) == [op |-> op, raw |-> raw, out |-> out]

CodecInitRest ==
  /\ page_table = <<>>
  /\ free_list = <<>>
  /\ buffer_pool = <<>>
  /\ replacer = ClockReplacer_new(0)
  /\ disk_manager = FakeDiskManager_new(0)
  /\ overflow_checks = TRUE
  /\ panicked = FALSE
  /\ threads = <<>>

CodecRest == UNCHANGED <<page_table, free_list, buffer_pool, replacer, disk_manager,
                         overflow_checks, panicked, threads>>

HeaderInit ==
  /\ \E pid \in 0 .. MaxHeaderPid, size \in 1 .. MaxHeaderSize :
       ghost = HashTableHeaderPage_new(RealLayout, pid, size)
  /\ ret = CodecRet("new", <<>>, None)
  /\ CodecInitRest

HeaderAdd(pid) ==
  /\ ret.op \in {"new", "add", "set"}
  /\ ghost.basic_info.next_idx < MaxHeaderAdd
  /\ ghost' = HashTableHeaderPage_add(ghost, pid)
  /\ ret' = CodecRet("add", <<>>, None)
  /\ CodecRest

HeaderSet(pid, idx) ==
  /\ ret.op \in {"new", "add", "set"}
  /\ ghost' = HashTableHeaderPage_set(ghost, pid, idx)
  /\ ret' = CodecRet("set", <<>>, None)
  /\ CodecRest

HeaderSerialize ==
  /\ ret.op \in {"new", "add", "set"}
  /\ ret' = CodecRet("serialize", HashTableHeaderPage_serialize(RealLayout, ghost), None)
  /\ UNCHANGED ghost /\ CodecRest

HeaderDeserialize ==
  /\ ret.op = "serialize"
  /\ ret' = CodecRet("deserialize", ret.raw,
                     HashTableHeaderPage_deserialize(RealLayout, ret.raw))
  /\ UNCHANGED ghost /\ CodecRest

HeaderNext ==
  \/ \E pid \in HeaderBlockPids : HeaderAdd(pid)
  \/ \E pid \in HeaderBlockPids, idx \in HeaderIdxs : HeaderSet(pid, idx)
  \/ HeaderSerialize
  \/ HeaderDeserialize

HeaderSpec == HeaderInit /\ [][HeaderNext]_vars

(***************************************************************************)
(* BlockSpec: blocks of the real layout (FakeKey of 10 bytes, FakeValue of  *)
(* 20, 135 slots) built by new and insert at the first two and the last two *)
(* slots, serialized into the bytes of a page and deserialized from them.   *)
(***************************************************************************)
BlockSlots == {0, 1, capacity_of_block(RealLayout) - 2, capacity_of_block(RealLayout) - 1}
Keys == 1 .. MaxKey
Values == 1 .. MaxValue

BlockInit ==
  /\ ghost = HashTableBlockPage_new(RealLayout)
  /\ ret = CodecRet("new", <<>>, None)
  /\ CodecInitRest

BlockInsert(slot_idx, key, value) ==
  /\ ret.op \in {"new", "insert"}
  /\ LET r == HashTableBlockPage_insert(ghost, slot_idx, key, value)
     IN /\ ghost' = r.block
        /\ ret' = CodecRet("insert", <<>>, r.ok)
  /\ CodecRest

BlockSerialize ==
  /\ ret.op \in {"new", "insert"}
  /\ ret' = CodecRet("serialize",
                     CopyToPage(ZeroPage(RealLayout),
                                HashTableBlockPage_serialize(RealLayout, ghost)),
                     None)
  /\ UNCHANGED ghost /\ CodecRest

BlockDeserialize ==
  /\ ret.op = "serialize"
  /\ ret' = CodecRet("deserialize", ret.raw,
                     HashTableBlockPage_deserialize(RealLayout, ret.raw))
  /\ UNCHANGED ghost /\ CodecRest

BlockNext ==
  \/ \E slot_idx \in BlockSlots, key \in Keys, value \in Values :
       BlockInsert(slot_idx, key, value)
  \/ BlockSerialize
  \/ BlockDeserialize

BlockSpec == BlockInit /\ [][BlockNext]_vars

(***************************************************************************)
(* LinearProbeHashTable (src/container/hash/linear_probe_hash_table.rs) on  *)
(* a BufferPoolManager.  A pool value is the record of the fields of the    *)
(* pool; the calls of the index on the pool are functions of it, with the   *)
(* steps of fetch_page, new_page and unpin_page above.  panic gathers the   *)
(* unwraps and asserts that abort the process.                              *)
(***************************************************************************)
Bpm(pt, fl, bp, r, dm, panic) ==
  [page_table |-> pt, free_list |-> fl, buffer_pool |-> bp, replacer |-> r,
   disk_manager |-> dm, panic |-> panic]

\* let x = e; F(x): e is evaluated once
Let(e, F(_)) == CHOOSE y \in {F(x) : x \in {e}} : TRUE

bpm_fetch_page(B, pid) ==
  IF contains_key(B.page_table, pid)
  THEN LET fid == B.page_table[pid]
       IN [ok |-> TRUE, fid |-> fid,
           bpm |-> [B EXCEPT !.replacer = ClockReplacer_pin(@, fid),
                             !.buffer_pool[fid] = Page_pin(@),
                             !.panic = @ \/ Page_pin_overflows(B.buffer_pool[fid])]]
  ELSE Let(get_available_frame(B.free_list, B.replacer), LAMBDA g :
         IF ~g.ok
         THEN [ok |-> FALSE, fid |-> None, bpm |-> [B EXCEPT !.replacer = g.replacer]]
         ELSE Let(update_page(B.page_table, B.buffer_pool, g.replacer,
                              B.disk_manager, TRUE, g.fid, pid, FALSE), LAMBDA u :
                [ok |-> TRUE, fid |-> g.fid,
                 bpm |-> Bpm(u.page_table, g.free_list, u.buffer_pool, u.replacer,
                             u.disk_manager, B.panic \/ u.panic)]))

bpm_new_page(B) ==
  Let(get_available_frame(B.free_list, B.replacer), LAMBDA g :
    IF ~g.ok
    THEN [ok |-> FALSE, fid |-> None, bpm |-> [B EXCEPT !.replacer = g.replacer]]
    ELSE Let(Fake_allocate_page(B.disk_manager), LAMBDA a :
           IF ~a.ok
           THEN [ok |-> FALSE, fid |-> None,
                 bpm |-> [B EXCEPT !.replacer = g.replacer, !.free_list = g.free_list]]
           ELSE Let(update_page(B.page_table, B.buffer_pool, g.replacer,
                                a.dm, TRUE, g.fid, a.pid, TRUE), LAMBDA u :
                  [ok |-> TRUE, fid |-> g.fid,
                   bpm |-> Bpm(u.page_table, g.free_list, u.buffer_pool, u.replacer,
                               u.disk_manager, B.panic \/ u.panic)])))

bpm_unpin_page(B, pid, is_dirty) ==
  IF contains_key(B.page_table, pid)
  THEN LET fid == B.page_table[pid]
       IN [B EXCEPT !.buffer_pool[fid] = Page_set_dirty(Page_unpin(@), is_dirty),
                    !.replacer = ClockReplacer_unpin(@, fid),
                    !.panic = @ \/ Page_unpin_overflows(B.buffer_pool[fid])]
  ELSE B

\* the frame a failed fetch_page / new_page would have returned: the unwrap
\* of the caller panics and nothing of the frame is used
FrameOf(a) == IF a.ok THEN a.fid ELSE 0

\* get_header: the header page is fetched and deserialized; it is not unpinned
get_header(L, B, header_pid) ==
  Let(bpm_fetch_page(B, header_pid), LAMBDA a :
    Let(HashTableHeaderPage_deserialize(L, a.bpm.buffer_pool[FrameOf(a)].data), LAMBDA d :
      [header |-> d.header, bpm |-> [a.bpm EXCEPT !.panic = @ \/ ~a.ok \/ ~d.ok]]))

\* get_block: the block page is fetched and deserialized; it is not unpinned
get_block(L, B, block_pid) ==
  Let(bpm_fetch_page(B, block_pid), LAMBDA a :
    [block |-> HashTableBlockPage_deserialize(L, a.bpm.buffer_pool[FrameOf(a)].data),
     bpm |-> [a.bpm EXCEPT !.panic = @ \/ ~a.ok]])

\* update_page(bpm, pid_option, page_data): fetch or allocate the page, copy
\* page_data over the start of its bytes, unpin it dirty
hash_update_page(B, pid_option, page_data) ==
  Let(IF pid_option # None THEN bpm_fetch_page(B, pid_option) ELSE bpm_new_page(B),
      LAMBDA a :
    Let([a.bpm EXCEPT
           !.buffer_pool[FrameOf(a)].data = CopyToPage(@, page_data),
           !.panic = @ \/ ~a.ok
                       \/ Len(page_data) > Len(a.bpm.buffer_pool[FrameOf(a)].data)],
        LAMBDA written :
      [pid |-> written.buffer_pool[FrameOf(a)].id,
       bpm |-> bpm_unpin_page(written, written.buffer_pool[FrameOf(a)].id, TRUE)]))

\* insert_to_new_block
insert_to_new_block(L, B, k, v, header, block_idx, block_offset) ==
  Let(HashTableBlockPage_insert(HashTableBlockPage_new(L), block_offset, k, v), LAMBDA ins :
    Let(hash_update_page(B, None, HashTableBlockPage_serialize(L, ins.block)), LAMBDA u1 :
      Let(HashTableHeaderPage_set(header, u1.pid, block_idx), LAMBDA header1 :
        Let(hash_update_page(u1.bpm, header1.basic_info.page_id,
                             HashTableHeaderPage_serialize(L, header1)), LAMBDA u2 :
          [header |-> header1, bpm |-> [u2.bpm EXCEPT !.panic = @ \/ ~ins.ok]]))))

\* find_available_slot: the first slot from block_offset that is free
\* (Found) or holds (key, val) (Duplicated); NotFound when there is none
find_available_slot(L, B, key, val, block_pid, block_offset) ==
  Let(get_block(L, B, block_pid), LAMBDA g :
    Let({i \in block_offset .. (capacity_of_block(L) - 1) :
           \/ ~HashTableBlockPage_occupied(g.block, i)
           \/ HashTableBlockPage_get(g.block, i) = [key |-> key, value |-> val]},
        LAMBDA stops :
      IF stops = {}
      THEN [res |-> "NotFound", block |-> g.block, i |-> None, bpm |-> g.bpm]
      ELSE Let(CHOOSE x \in stops : \A y \in stops : x <= y, LAMBDA i :
             IF ~HashTableBlockPage_occupied(g.block, i)
             THEN [res |-> "Found", block |-> g.block, i |-> i, bpm |-> g.bpm]
             ELSE [res |-> "Duplicated", block |-> g.block, i |-> None, bpm |-> g.bpm])))

\* try_insert_to_appropriate_slot: the loop; seen holds the (block, offset)
\* pairs the loop has scanned without success.  Scanning one of them again
\* finds the same bytes, so the loop goes round for ever ("hang").
RECURSIVE try_insert_to_appropriate_slot(_, _, _, _, _, _, _, _)
try_insert_to_appropriate_slot(L, B, k, v, header, next_block_idx, block_offset, seen) ==
  IF <<next_block_idx, block_offset>> \in seen
  THEN [res |-> "hang", bpm |-> B]
  ELSE Let(HashTableHeaderPage_get_block_page_id(L, header, next_block_idx),
           LAMBDA next_block_pid :
    IF next_block_pid = None
    THEN [res |-> "true",
          bpm |-> insert_to_new_block(L, B, k, v, header, next_block_idx, block_offset).bpm]
    ELSE Let(find_available_slot(L, B, k, v, next_block_pid, block_offset), LAMBDA f :
           IF f.res = "NotFound"
           THEN try_insert_to_appropriate_slot(
                  L, f.bpm, k, v, header,
                  IF next_block_idx + 1 = header.basic_info.size THEN 0
                  ELSE next_block_idx + 1,
                  0, seen \cup {<<next_block_idx, block_offset>>})
           ELSE IF f.res = "Duplicated"
           THEN [res |-> "false", bpm |-> f.bpm]
           ELSE Let(HashTableBlockPage_insert(f.block, f.i, k, v), LAMBDA ins :
                  Let(hash_update_page(f.bpm, next_block_pid,
                                       HashTableBlockPage_serialize(L, ins.block)),
                      LAMBDA u :
                    [res |-> "true", bpm |-> [u.bpm EXCEPT !.panic = @ \/ ~ins.ok]]))))

\* slot_idx = hash_fn(k) % (header.get_size() * slot_capacity)
SlotIdx(L, header, hash) == hash % (header.basic_info.size * capacity_of_block(L))

\* insert(k, v)
hash_insert(L, B, T, k, v) ==
  Let(get_header(L, B, T.header_pid), LAMBDA h :
    IF h.bpm.panic THEN [res |-> "panic", bpm |-> h.bpm]
    ELSE Let(SlotIdx(L, h.header, T.hash_fn[k]), LAMBDA slot_idx :
           try_insert_to_appropriate_slot(
             L, h.bpm, k, v, h.header,
             slot_idx \div capacity_of_block(L),
             slot_idx - (slot_idx \div capacity_of_block(L)) * capacity_of_block(L),
             {})))

\* get_value(k): the values found, a sequence
hash_get_value(L, B, T, k) ==
  Let(get_header(L, B, T.header_pid), LAMBDA h :
    IF h.bpm.panic THEN [res |-> <<>>, bpm |-> h.bpm]
    ELSE Let(SlotIdx(L, h.header, T.hash_fn[k]), LAMBDA slot_idx :
      Let(slot_idx \div capacity_of_block(L), LAMBDA block_idx :
        Let(HashTableHeaderPage_get_block_page_id(L, h.header, block_idx), LAMBDA blk_pid :
          IF blk_pid = None THEN [res |-> <<>>, bpm |-> h.bpm]
          ELSE Let(get_block(L, h.bpm, blk_pid), LAMBDA g :
                 Let(slot_idx - block_idx * capacity_of_block(L), LAMBDA block_offset :
                   IF ~HashTableBlockPage_occupied(g.block, block_offset)
                   THEN [res |-> <<>>, bpm |-> g.bpm]
                   ELSE [res |-> IF HashTableBlockPage_get(g.block, block_offset).key = k
                                 THEN <<HashTableBlockPage_get(g.block, block_offset).value>>
                                 ELSE <<>>,
                         bpm |-> g.bpm]))))))

\* LinearProbeHashTable::new(num_buckets, bpm, hash_fn): the header page is
\* allocated and written through the reference new_page returned; it is
\* neither unpinned nor marked dirty
LinearProbeHashTable_new(L, B, num_buckets, hash_fn) ==
  Let(bpm_new_page(B), LAMBDA a :
    Let(a.bpm.buffer_pool[FrameOf(a)].id, LAMBDA header_pid :
      [table |-> [header_pid |-> header_pid, hash_fn |-> hash_fn],
       bpm |-> [a.bpm EXCEPT
                  !.buffer_pool[FrameOf(a)].data =
                     CopyToPage(@, HashTableHeaderPage_serialize(
                                     L, HashTableHeaderPage_new(L, header_pid, num_buckets))),
                  !.panic = @ \/ ~a.ok]]))

(***************************************************************************)
(* HashSpec: an index of HashBuckets buckets in the small layout (2 slots   *)
(* a block) on a pool with more frames than the index has pages, as in the  *)
(* tests of the index.  The hash function is FAKE_HASH of the tests (the    *)
(* key itself) or one that sends every key to the final slot of the last    *)
(* block.  threads[1] is the caller's LinearProbeHashTable; ghost counts    *)
(* the calls (the pin counts grow with them) and keeps the pairs whose      *)
(* insert returned true.                                                    *)
(***************************************************************************)
HashKeys == 0 .. MaxHashKey
HashValues == 1 .. MaxHashValue
HashPoolSize == HashBuckets + 2
HashSlots == HashBuckets * capacity_of_block(SmallLayout)
HashFns == {[k \in HashKeys |-> k], [k \in HashKeys |-> HashSlots - 1]}

TheBpm == Bpm(page_table, free_list, buffer_pool, replacer, disk_manager, panicked)

SetBpm(B) ==
  /\ page_table' = B.page_table
  /\ free_list' = B.free_list
  /\ buffer_pool' = B.buffer_pool
  /\ replacer' = B.replacer
  /\ disk_manager' = B.disk_manager
  /\ panicked' = B.panic

HashRet(op, k, v, res) == [op |-> op, k |-> k, v |-> v, res |-> res]

HashInit ==
  \E hash_fn \in HashFns :
    \E n \in {LinearProbeHashTable_new(
                SmallLayout,
                Bpm(<<>>, build_full_free_list(HashPoolSize),
                    [f \in 0 .. (HashPoolSize - 1) |->
                       [EMPTY_PAGE EXCEPT !.data = ZeroPage(SmallLayout)]],
                    ClockReplacer_new(HashPoolSize),
                    [page_counter |-> 0,
                     fake_file |-> [p \in 0 .. HashPoolSize |-> ZeroPage(SmallLayout)]],
                    FALSE),
                HashBuckets, hash_fn)} :
       /\ page_table = n.bpm.page_table
       /\ free_list = n.bpm.free_list
       /\ buffer_pool = n.bpm.buffer_pool
       /\ replacer = n.bpm.replacer
       /\ disk_manager = n.bpm.disk_manager
       /\ panicked = n.bpm.panic
       /\ threads = <<n.table>>
       /\ overflow_checks = TRUE
       /\ ret = HashRet("new", None, None, "Ok")
       /\ ghost = [ops |-> 0, inserted |-> {}]

HashRunning == ~panicked /\ ret.res # "hang" /\ ghost.ops < MaxHashOps

HashInsert(k, v) ==
  /\ HashRunning
  /\ \E B \in {TheBpm} :
       \E r \in {hash_insert(SmallLayout, B, threads[1], k, v)} :
         /\ SetBpm(r.bpm)
         /\ ret' = HashRet("insert", k, v, IF r.bpm.panic THEN "panic" ELSE r.res)
         /\ ghost' = [ops |-> ghost.ops + 1,
                      inserted |-> IF r.res = "true" /\ ~r.bpm.panic
                                   THEN ghost.inserted \cup {<<k, v>>}
                                   ELSE ghost.inserted]
  /\ UNCHANGED <<threads, overflow_checks>>

HashGetValue(k) ==
  /\ HashRunning
  /\ \E B \in {TheBpm} :
       \E r \in {hash_get_value(SmallLayout, B, threads[1], k)} :
         /\ SetBpm(r.bpm)
         /\ ret' = HashRet("get_value", k, None, IF r.bpm.panic THEN "panic" ELSE r.res)
         /\ ghost' = [ghost EXCEPT !.ops = @ + 1]
  /\ UNCHANGED <<threads, overflow_checks>>

HashNext ==
  \/ \E k \in HashKeys, v \in HashValues : HashInsert(k, v)
  \/ \E k \in HashKeys : HashGetValue(k)

HashSpec == HashInit /\ [][HashNext]_vars

(***************************************************************************)
(* CapacitySpec: block pages of key and value types of other widths on     *)
(* pages of PAGE_SIZE bytes: the key has 1..MaxKeySize bytes and the value  *)
(* none, one, as many or one less (mappings of 1..2 * MaxKeySize bytes), or *)
(* both have PAGE_SIZE / 2 bytes.  An empty block is built by new,          *)
(* serialized, and copied by update_page into a page new_page hands out.    *)
(***************************************************************************)
WidthLayout(key_size, value_size) ==
  [RealLayout EXCEPT !.key_size = key_size, !.value_size = value_size]

BlockLayouts ==
  {WidthLayout(k, v) : k \in 1 .. MaxKeySize, v \in {0, 1}}
    \cup {WidthLayout(k, k - v) : k \in 1 .. MaxKeySize, v \in {0, 1}}
    \cup {WidthLayout(PAGE_SIZE \div 2, PAGE_SIZE \div 2)}

\* new() of a type with capacity 0: (capacity - 1) on a usize underflows; the
\* build with overflow checks panics there, the other one asks vec! for
\* usize::MAX / 8 + 1 bytes and aborts on the failed allocation
HashTableBlockPage_new_fails(L) == capacity_of_block(L) = 0

CapacityInit ==
  /\ \E L \in BlockLayouts : ghost = [layout |-> L, block |-> <<>>]
  /\ page_table = <<>>
  /\ free_list = build_full_free_list(1)
  /\ buffer_pool = [f \in {0} |-> [EMPTY_PAGE EXCEPT !.data = ZeroPage(RealLayout)]]
  /\ replacer = ClockReplacer_new(1)
  /\ disk_manager = [page_counter |-> 0,
                     fake_file |-> [p \in {0} |-> ZeroPage(RealLayout)]]
  /\ overflow_checks = TRUE
  /\ panicked = FALSE
  /\ threads = <<>>
  /\ ret = CodecRet("layout", <<>>, None)

CapacityRest == UNCHANGED <<page_table, free_list, buffer_pool, replacer, disk_manager,
                            overflow_checks, threads>>

CapacityNew ==
  /\ ~panicked
  /\ ret.op = "layout"
  /\ IF HashTableBlockPage_new_fails(ghost.layout)
     THEN /\ panicked' = TRUE
          /\ ret' = CodecRet("new", <<>>, "panic")
          /\ UNCHANGED ghost
     ELSE /\ ghost' = [ghost EXCEPT !.block = HashTableBlockPage_new(ghost.layout)]
          /\ ret' = CodecRet("new", <<>>, None)
          /\ UNCHANGED panicked
  /\ CapacityRest

CapacitySerialize ==
  /\ ~panicked
  /\ ret.op = "new"
  /\ ret' = CodecRet("serialize",
                     HashTableBlockPage_serialize(ghost.layout, ghost.block), None)
  /\ UNCHANGED <<ghost, panicked>> /\ CapacityRest

CapacityUpdatePage ==
  /\ ~panicked
  /\ ret.op = "serialize"
  /\ \E u \in {hash_update_page(TheBpm, None, ret.raw)} :
       /\ SetBpm(u.bpm)
       /\ ret' = CodecRet("update_page", ret.raw, u.pid)
  /\ UNCHANGED <<ghost, overflow_checks, threads>>

CapacityNext ==
  \/ CapacityNew
  \/ CapacitySerialize
  \/ CapacityUpdatePage

CapacitySpec == CapacityInit /\ [][CapacityNext]_vars

\* the header and the blocks of the index as the pool holds them
HashHeader ==
  HashTableHeaderPage_deserialize(
    SmallLayout, buffer_pool[page_table[threads[1].header_pid]].data).header

HashBlock(block_idx) ==
  HashTableBlockPage_deserialize(
    SmallLayout, buffer_pool[page_table[HashHeader.block_page_ids[block_idx]]].data)

(***************************************************************************)
(* FileDiskManager (src/storage/disk/disk_manager.rs)                       *)
(*                                                                         *)
(* A manager is [page_counter, page_table, file]: the rotating cursor, the  *)
(* allocation bitmap (one u8 per 8 page ids, MAX_FILE_PAGES >> 3 of them)   *)
(* and the bytes of the backing file.  D gives the sizes: RealDisk are the  *)
(* sizes of the source, SmallDisk keeps two bitmap bytes (16 page ids) and  *)
(* two bytes a page.                                                        *)
(***************************************************************************)
RealDisk == [max_pages |-> MAX_FILE_PAGES, page_size |-> PAGE_SIZE]
SmallDisk == [max_pages |-> 16, page_size |-> 2]

RECURSIVE BitAnd(_, _)
BitAnd(a, b) ==
  IF a = 0 \/ b = 0 THEN 0
  ELSE (a % 2) * (b % 2) + 2 * BitAnd(a \div 2, b \div 2)

\* FileDiskManager::new: a file that does not exist is created with
\* MAX_FILE_PAGES zero pages; an existing file is opened as it is.  The
\* bitmap and the cursor start at zero in both cases.
\* file_path is [exists, bytes].
FileDiskManager_new(D, file_path) ==
  [page_counter |-> 0,
   page_table |-> [b \in 0 .. ((D.max_pages \div 8) - 1) |-> 0],
   file |-> IF ~file_path.exists
            THEN [i \in 1 .. (D.page_size * D.max_pages) |-> 0]
            ELSE file_path.bytes]

\* the loop of get_free_slot: at most page_table.len() bytes are looked at,
\* from the byte of the cursor on, stepping with (curr_byte + 1) & (len - 1)
RECURSIVE free_slot_scan(_, _, _)
free_slot_scan(table, curr_byte, i) ==
  LET len == Cardinality(DOMAIN table)
  IN IF i = len \/ table[curr_byte] # 255 THEN curr_byte
     ELSE free_slot_scan(table, BitAnd(curr_byte + 1, len - 1), i + 1)

\* get_free_slot: !free_byte & (free_byte + 1) on a u16 is the lowest clear
\* bit of the byte; any other value than the eight single bits gives None
get_free_slot(fdm) ==
  LET curr_byte == free_slot_scan(fdm.page_table, fdm.page_counter \div 8, 0)
      free_byte == fdm.page_table[curr_byte]
      low == BitAnd(65535 - free_byte, free_byte + 1)
  IN IF low \in {2 ^ n : n \in 0 .. 7}
     THEN curr_byte * 8 + (CHOOSE n \in 0 .. 7 : 2 ^ n = low)
     ELSE None

\* set_slot: page_table[page_counter / 8] |= 1 << (page_counter % 8)
set_slot(fdm) ==
  [fdm EXCEPT !.page_table[fdm.page_counter \div 8] =
     IF BitOf(@, fdm.page_counter % 8) = 1 THEN @ ELSE @ + 2 ^ (fdm.page_counter % 8)]

\* clear_slot: page_table[slot / 8] &= !(1 << (slot % 8))
clear_slot(fdm, slot) ==
  [fdm EXCEPT !.page_table[slot \div 8] =
     IF BitOf(@, slot % 8) = 1 THEN @ - 2 ^ (slot % 8) ELSE @]

validate_page_id(D, pid) ==
  IF pid >= D.max_pages THEN "Invalid page id." ELSE "Ok"

validate_allocation(fdm, pid) ==
  IF BitOf(fdm.page_table[pid \div 8], pid % 8) # 1 THEN "Page id not allocate." ELSE "Ok"

File_allocate_page_stay(fdm) ==
  LET free_slot == get_free_slot(fdm)
  IN IF free_slot # None
     THEN [res |-> "Ok", pid |-> free_slot, fdm |-> set_slot(fdm)]
     ELSE [res |-> "Exceeded max page.", pid |-> None, fdm |-> fdm]
File_allocate_page(fdm) ==
  LET free_slot == get_free_slot(fdm)
  IN IF free_slot # None
     THEN [res |-> "Ok", pid |-> free_slot,
           fdm |-> set_slot([fdm EXCEPT !.page_counter = free_slot])]
     ELSE [res |-> "Exceeded max page.", pid |-> None, fdm |-> fdm]

File_deallocate_page(D, fdm, page_id) ==
  IF validate_page_id(D, page_id) # "Ok"
  THEN [res |-> validate_page_id(D, page_id), fdm |-> fdm]
  ELSE [res |-> "Ok", fdm |-> clear_slot(fdm, page_id)]

\* write_page: seek to page_id * PAGE_SIZE, write_all(page_data)
File_write_page_unvalidated(D, fdm, page_id, page_data) ==
  IF validate_page_id(D, page_id) # "Ok"
  THEN [res |-> validate_page_id(D, page_id), fdm |-> fdm]
  ELSE [res |-> "Ok",
        fdm |-> [fdm EXCEPT !.file =
                   [i \in DOMAIN @ \cup ((page_id * D.page_size + 1) ..
                                         (page_id * D.page_size + Len(page_data))) |->
                      IF i > page_id * D.page_size /\ i <= page_id * D.page_size + Len(page_data)
                      THEN page_data[i - page_id * D.page_size]
                      ELSE @[i]]]]
File_write_page(D, fdm, page_id, page_data) ==
  IF validate_page_id(D, page_id) # "Ok"
  THEN [res |-> validate_page_id(D, page_id), fdm |-> fdm]
  ELSE IF validate_allocation(fdm, page_id) # "Ok"
  THEN [res |-> validate_allocation(fdm, page_id), fdm |-> fdm]
  ELSE [res |-> "Ok",
        fdm |-> [fdm EXCEPT !.file =
                   [i \in DOMAIN @ \cup ((page_id * D.page_size + 1) ..
                                         (page_id * D.page_size + Len(page_data))) |->
                      IF i > page_id * D.page_size /\ i <= page_id * D.page_size + Len(page_data)
                      THEN page_data[i - page_id * D.page_size]
                      ELSE @[i]]]]

\* read_page: seek to page_id * PAGE_SIZE, read_exact into the PAGE_SIZE
\* bytes of the caller's buffer
File_read_page(D, fdm, page_id) ==
  IF validate_page_id(D, page_id) # "Ok"
  THEN [res |-> validate_page_id(D, page_id), out |-> <<>>]
  ELSE IF validate_allocation(fdm, page_id) # "Ok"
  THEN [res |-> validate_allocation(fdm, page_id), out |-> <<>>]
  ELSE [res |-> "Ok",
        out |-> [i \in 1 .. D.page_size |-> fdm.file[page_id * D.page_size + i]]]

(***************************************************************************)
(* DiskSpec: the two backends side by side.  disk_manager holds a          *)
(* FileDiskManager of SmallDisk sizes and a FakeDiskManager; a call goes    *)
(* to one of them.  Init draws the file manager from states that            *)
(* allocate_page/deallocate_page calls reach (bitmap bytes empty or full,   *)
(* cursor in the first or the last byte, nothing written yet) and the fake  *)
(* manager fresh or with all but the last id of MAX_FILE_PAGES handed out.  *)
(* ghost keeps, for every page, the bytes of the latest successful write.   *)
(***************************************************************************)
FilePids == {0, 1, SmallDisk.max_pages - 1, SmallDisk.max_pages, INVALID_PAGE_ID}
FakePids == {0, MAX_FILE_PAGES - 1, MAX_FILE_PAGES}
FakeFilePids == {0, MAX_FILE_PAGES - 1}
DiskDatas == 1 .. MaxDiskData
\* the PAGE_SIZE bytes a caller hands to write_page
PageBytes(d) == [i \in 1 .. SmallDisk.page_size |-> d]
ZeroBytes == [i \in 1 .. SmallDisk.page_size |-> 0]
FilePages == 0 .. (SmallDisk.max_pages - 1)

\* out is what the call hands back, as a sequence: the page id of
\* allocate_page, the bytes of read_page, nothing for the other calls
DiskRet(backend, op, pid, res, out) ==
  [backend |-> backend, op |-> op, pid |-> pid, res |-> res, out |-> out]

DiskInit ==
  /\ \E b0 \in {0, 255}, b1 \in {0, 255}, cursor \in {0, SmallDisk.max_pages - 1},
        handed \in {0, MAX_FILE_PAGES - 1} :
       disk_manager =
         [file_dm |-> [FileDiskManager_new(SmallDisk, [exists |-> FALSE, bytes |-> <<>>]) EXCEPT
                         !.page_counter = cursor,
                         !.page_table = (0 :> b0) @@ (1 :> b1)],
          fake_dm |-> [page_counter |-> handed, fake_file |-> [p \in FakeFilePids |-> 0]]]
  /\ ghost = [ops |-> 0,
              file |-> [p \in FilePages |-> ZeroBytes],
              fake |-> [p \in FakePids |-> 0]]
  /\ ret = DiskRet("none", "new", None, "Ok", <<>>)
  /\ page_table = <<>>
  /\ free_list = <<>>
  /\ buffer_pool = <<>>
  /\ replacer = ClockReplacer_new(0)
  /\ overflow_checks = TRUE
  /\ panicked = FALSE
  /\ threads = <<>>

DiskRest == UNCHANGED <<page_table, free_list, buffer_pool, replacer, overflow_checks, threads>>

DiskRunning == ~panicked /\ ghost.ops < MaxDiskOps

Counted(g) == [g EXCEPT !.ops = @ + 1]

FileAllocate ==
  /\ DiskRunning
  /\ \E r \in {File_allocate_page(disk_manager.file_dm)} :
       /\ disk_manager' = [disk_manager EXCEPT !.file_dm = r.fdm]
       /\ ret' = DiskRet("file", "allocate_page", None, r.res,
                         IF r.pid = None THEN <<>> ELSE <<r.pid>>)
  /\ ghost' = Counted(ghost)
  /\ UNCHANGED panicked /\ DiskRest

FileDeallocate(pid) ==
  /\ DiskRunning
  /\ \E r \in {File_deallocate_page(SmallDisk, disk_manager.file_dm, pid)} :
       /\ disk_manager' = [disk_manager EXCEPT !.file_dm = r.fdm]
       /\ ret' = DiskRet("file", "deallocate_page", pid, r.res, <<>>)
  /\ ghost' = Counted(ghost)
  /\ UNCHANGED panicked /\ DiskRest

FileWrite(pid, d) ==
  /\ DiskRunning
  /\ \E r \in {File_write_page(SmallDisk, disk_manager.file_dm, pid, PageBytes(d))} :
       /\ disk_manager' = [disk_manager EXCEPT !.file_dm = r.fdm]
       /\ ret' = DiskRet("file", "write_page", pid, r.res, <<>>)
       /\ ghost' = IF r.res = "Ok"
                   THEN Counted([ghost EXCEPT !.file[pid] = PageBytes(d)])
                   ELSE Counted(ghost)
  /\ UNCHANGED panicked /\ DiskRest

FileRead(pid) ==
  /\ DiskRunning
  /\ \E r \in {File_read_page(SmallDisk, disk_manager.file_dm, pid)} :
       ret' = DiskRet("file", "read_page", pid, r.res, r.out)
  /\ ghost' = Counted(ghost)
  /\ UNCHANGED <<disk_manager, panicked>> /\ DiskRest

\* a second FileDiskManager::new on the file the first one left
FileReopen ==
  /\ DiskRunning
  /\ disk_manager' = [disk_manager EXCEPT
                        !.file_dm = FileDiskManager_new(SmallDisk, [exists |-> TRUE, bytes |-> @.file])]
  /\ ret' = DiskRet("file", "new", None, "Ok", <<>>)
  /\ ghost' = Counted(ghost)
  /\ UNCHANGED panicked /\ DiskRest

FakeAllocate ==
  /\ DiskRunning
  /\ \E r \in {Fake_allocate_page(disk_manager.fake_dm)} :
       /\ disk_manager' = [disk_manager EXCEPT !.fake_dm = r.dm]
       /\ ret' = DiskRet("fake", "allocate_page", None,
                         IF r.ok THEN "Ok" ELSE "Exceeded max page.",
                         IF r.ok THEN <<r.pid>> ELSE <<>>)
  /\ ghost' = Counted(ghost)
  /\ UNCHANGED panicked /\ DiskRest

FakeDeallocate(pid) ==
  /\ DiskRunning
  /\ ret' = DiskRet("fake", "deallocate_page", pid,
                    IF Fake_deallocate_page(disk_manager.fake_dm, pid) THEN "Ok" ELSE "false",
                    <<>>)
  /\ ghost' = Counted(ghost)
  /\ UNCHANGED <<disk_manager, panicked>> /\ DiskRest

FakeWrite(pid, d) ==
  /\ DiskRunning
  /\ IF Fake_io_panics(pid)
     THEN /\ panicked' = TRUE
          /\ ret' = DiskRet("fake", "write_page", pid, "panic", <<>>)
          /\ ghost' = Counted(ghost)
          /\ UNCHANGED disk_manager
     ELSE /\ disk_manager' = [disk_manager EXCEPT
                                !.fake_dm = Fake_write_page(@, pid, d)]
          /\ ret' = DiskRet("fake", "write_page", pid, "Ok", <<>>)
          /\ ghost' = Counted([ghost EXCEPT !.fake[pid] = d])
          /\ UNCHANGED panicked
  /\ DiskRest

FakeRead(pid) ==
  /\ DiskRunning
  /\ IF Fake_io_panics(pid)
     THEN /\ panicked' = TRUE
          /\ ret' = DiskRet("fake", "read_page", pid, "panic", <<>>)
     ELSE /\ ret' = DiskRet("fake", "read_page", pid, "Ok",
                            <<Fake_read_page(disk_manager.fake_dm, pid)>>)
          /\ UNCHANGED panicked
  /\ ghost' = Counted(ghost)
  /\ UNCHANGED disk_manager /\ DiskRest

DiskNext ==
  \/ FileAllocate
  \/ \E pid \in FilePids : FileDeallocate(pid)
  \/ \E pid \in FilePids, d \in DiskDatas : FileWrite(pid, d)
  \/ \E pid \in FilePids : FileRead(pid)
  \/ FileReopen
  \/ FakeAllocate
  \/ \E pid \in FakePids : FakeDeallocate(pid)
  \/ \E pid \in FakePids, d \in DiskDatas : FakeWrite(pid, d)
  \/ \E pid \in FakePids : FakeRead(pid)

DiskSpec == DiskInit /\ [][DiskNext]_vars

(***************************************************************************)
(* Properties                                                               *)
(***************************************************************************)
Frames == DOMAIN buffer_pool
Resident == DOMAIN page_table
InFreeList(f) == \E i \in 1 .. Len(free_list) : free_list[i] = f
Writes(events) == SelectSeq(events, LAMBDA e : e.ev = "write_page")
EventAt(events, ev) == CHOOSE i \in 1 .. Len(events) : events[i].ev = ev
\* the step is a call that returned r (get_data_mut leaves ret as it is)
Returned(op) == ret' # ret /\ ret'.op = op

\* C1: a frame whose pin_count is greater than 0 is never handed out by the
\* replacer's victim() and never reassigned to another page id by a later
\* fetch_page/new_page, nested leases included.
C1_PinnedNeverEvicted ==
  [][\A f \in Frames :
       buffer_pool[f].pin_count > 0 =>
         /\ buffer_pool'[f].id = buffer_pool[f].id
         /\ ~(ret' # ret /\ ret'.src = "victim" /\ ret'.fid = f)]_vars

\* C2: unpin_page(pid, is_dirty) on a resident page leaves the dirty flag at
\* (previous dirty OR is_dirty), and a set dirty flag is cleared only by the
\* write-back of the eviction of its frame.
C2_DirtyIsSticky ==
  [][/\ (Returned("unpin_page") /\ ret'.res = "true") =>
          buffer_pool'[ret'.fid].dirty_flag
            = (buffer_pool[ret'.fid].dirty_flag \/ ret'.is_dirty)
     /\ \A f \in Frames :
          (buffer_pool[f].dirty_flag /\ ~buffer_pool'[f].dirty_flag) =>
            /\ ret'.op \in {"fetch_page", "new_page"}
            /\ ret'.fid = f
            /\ Writes(ret'.events) # <<>>]_vars

\* C3: with one unpin_page per acquisition, a page whose bytes were written
\* under a lease, with an unpin_page(_, true) after the write, is returned
\* with the last-written bytes by a fetch_page that has to load it again.
C3_EvictedPageKeepsBytes ==
  (/\ ret.op = "fetch_page" /\ ret.res = "Ok" /\ ret.src # "hit"
   /\ ghost[ret.pid].n = 1
   /\ ghost[ret.pid].told)
  => buffer_pool[ret.fid].data = ghost[ret.pid].written

\* C4: while a lease on pid is outstanding, page_table[pid] stays the frame
\* the lease was handed: no call removes or redirects the mapping.
C4_LeasedMappingStable ==
  [][\A p \in DOMAIN ghost :
       (ghost[p].n > 0 /\ ghost'[p].n > 0 /\ p \in Resident) =>
         (p \in DOMAIN page_table' /\ page_table'[p] = page_table[p])]_vars

\* C5: no two distinct frames that are not on the free list carry the same
\* valid page id.
C5_OneFramePerPage ==
  \A f, g \in Frames :
    (f # g /\ ~InFreeList(f) /\ ~InFreeList(g)
       /\ buffer_pool[f].id # INVALID_PAGE_ID)
    => buffer_pool[f].id # buffer_pool[g].id

\* C6: every page-table entry pid -> fid points at a frame whose page id is
\* pid, and no two entries point at the same frame.
C6_PageTableMatchesFrames ==
  /\ \A p \in Resident : buffer_pool[page_table[p]].id = p
  /\ \A p, q \in Resident : p # q => page_table[p] # page_table[q]

C6_Witness ==
  /\ Cardinality(Resident) = Cardinality(Frames)
  /\ ret.op = "fetch_page" /\ ret.src = "victim" /\ ret.res = "Ok"
  /\ Len(ret.events) > 0

\* C7: a frame id on the free list is the target of no page-table entry, and
\* no frame id is on the free list twice.
C7_FreeListDisjoint ==
  /\ \A i \in 1 .. Len(free_list) : \A p \in Resident : page_table[p] # free_list[i]
  /\ \A i, j \in 1 .. Len(free_list) : i # j => free_list[i] # free_list[j]

C7_Witness ==
  /\ ret.op = "delete_page" /\ ret.res = "true" /\ ret.fid # None
  /\ InFreeList(ret.fid)
  /\ Resident # {}

\* C8: a fetch_page/new_page that reuses a dirty victim frame issues exactly
\* one write_page(old pid, frame bytes), before the old page-table entry is
\* removed and the new one inserted, and clears the dirty flag; for a clean
\* victim it issues no write_page.
C8_WriteBackOnEviction ==
  [][(/\ ret' # ret
      /\ ret'.op \in {"fetch_page", "new_page"}
      /\ ret'.res = "Ok" /\ ret'.src = "victim") =>
       LET old == buffer_pool[ret'.fid]
           ev == ret'.events
       IN IF old.dirty_flag
          THEN /\ Writes(ev) = <<Event("write_page", old.id, old.data)>>
               /\ EventAt(ev, "write_page") < EventAt(ev, "remove")
               /\ EventAt(ev, "remove") < EventAt(ev, "insert")
               /\ ev[EventAt(ev, "remove")].pid = old.id
               /\ disk_manager'.fake_file[old.id] = old.data
               /\ ~buffer_pool'[ret'.fid].dirty_flag
          ELSE /\ Writes(ev) = <<>>
               /\ disk_manager'.fake_file = disk_manager.fake_file]_vars

C8_Witness ==
  /\ ret.op = "fetch_page" /\ ret.res = "Ok" /\ ret.src = "victim"
  /\ \E i \in 1 .. Len(ret.events) :
       ret.events[i].ev = "write_page" /\ ret.events[i].arg = 1
  /\ ~buffer_pool[ret.fid].dirty_flag

\* C9: fetch_page and new_page fail with OutOfMemory only where the free list
\* is empty and every frame has pin_count > 0, whatever calls came before.
C9_OutOfMemoryOnlyWhenAllPinned ==
  ret.res = "OutOfMemory" =>
    /\ free_list = <<>>
    /\ \A f \in Frames : buffer_pool[f].pin_count > 0

C11_LoadedFrameState ==
  (/\ ret.op \in {"fetch_page", "new_page"}
   /\ ret.res = "Ok" /\ ret.src # "hit")
  => /\ buffer_pool[ret.fid].id = ret.pid
     /\ buffer_pool[ret.fid].pin_count = 1
     /\ contains_key(page_table, ret.pid) /\ page_table[ret.pid] = ret.fid
     /\ ~InFreeList(ret.fid)
     /\ replacer.frame_holder[ret.fid] = NO_FRAME

C13_DeletePinnedRefused ==
  [][/\ \A pid \in PageIds :
          (/\ contains_key(page_table, pid)
           /\ buffer_pool[page_table[pid]].pin_count > 0
           /\ DeletePage(pid))
          => (ret'.res = "InUse" /\ UNCHANGED poolVars)
     /\ (ret'.op = "delete_page" /\ ret'.res = "InUse") => UNCHANGED poolVars
     /\ (ret'.op = "delete_page" /\ ret'.fid # None) =>
          buffer_pool[ret'.fid].pin_count = 0]_vars

C13_Witness ==
  /\ ret.op = "delete_page" /\ ret.res = "InUse"
  /\ \E pid \in Resident : buffer_pool[page_table[pid]].pin_count = 2
  /\ \E pid \in Resident : buffer_pool[page_table[pid]].dirty_flag

\* C14: delete_page of a resident page with pin count 0 writes the frame to
\* disk first if it is dirty, removes pid from the page table, appends the
\* frame to the free list, asks the disk to deallocate pid and returns the
\* disk's answer; delete_page of a non-resident page changes neither the
\* page table nor the free list and returns the disk's answer.
C14_DeletePageEffect ==
  [][\A pid \in DataPageIds :
       (DeletePage(pid) /\ ret'.res # "panic") =>
         LET answer == IF Fake_deallocate_page(disk_manager, pid) THEN "true" ELSE "false"
         IN IF contains_key(page_table, pid)
            THEN LET fid == page_table[pid]
                     page == buffer_pool[fid]
                     ev == ret'.events
                 IN page.pin_count = 0 =>
                      /\ IF page.dirty_flag
                         THEN /\ ev[1] = Event("write_page", pid, page.data)
                              /\ Len(Writes(ev)) = 1
                              /\ disk_manager'.fake_file =
                                   [disk_manager.fake_file EXCEPT ![pid] = page.data]
                         ELSE /\ Writes(ev) = <<>>
                              /\ disk_manager'.fake_file = disk_manager.fake_file
                      /\ DOMAIN page_table' = DOMAIN page_table \ {pid}
                      /\ \A p \in DOMAIN page_table' : page_table'[p] = page_table[p]
                      /\ free_list' = free_list \o <<fid>>
                      /\ ev[Len(ev)] = Event("deallocate_page", pid, None)
                      /\ ret'.res = answer
            ELSE /\ page_table' = page_table
                 /\ free_list' = free_list
                 /\ disk_manager'.fake_file = disk_manager.fake_file
                 /\ ret'.res = answer]_vars

C14_Witness ==
  /\ ret.op = "delete_page" /\ ret.res = "true" /\ ret.fid # None
  /\ ret.events[1] = Event("write_page", ret.pid, 1)
  /\ disk_manager.fake_file[ret.pid] = 1
  /\ InFreeList(ret.fid)
  /\ ~contains_key(page_table, ret.pid)

\* the frame the next fetch_page miss or new_page takes is dirty and the
\* disk's write_page fails for the page it holds
WriteBackFails ==
  LET g == get_available_frame(free_list, replacer)
  IN /\ g.ok
     /\ Page_is_dirty(buffer_pool[g.fid])
     /\ Fake_io_panics(buffer_pool[g.fid].id)

\* C15: when write_page fails during the write-back of a dirty victim,
\* fetch_page/new_page returns an error instead of crashing, and the page
\* table and the frames stay as they were (old mapping, old id, bytes and
\* dirty flag; no new mapping).
C15_WriteBackFailureReturned ==
  [][(/\ ~panicked /\ WriteBackFails
      /\ ret'.op \in {"fetch_page", "new_page"} /\ ret'.src # "hit") =>
       /\ ~panicked'
       /\ ret'.res \notin {"Ok", "panic"}
       /\ page_table' = page_table
       /\ buffer_pool' = buffer_pool]_vars

\* C16: flush_page of a resident page issues exactly one write_page(pid,
\* frame bytes), returns true and leaves the frames (dirty flag and pin count
\* included), the page table, the free list and the replacer unchanged; of a
\* non-resident page it returns false and writes nothing.
C16_FlushPageEffect ==
  [][\A pid \in DataPageIds :
       (FlushPage(pid) /\ ret'.res # "panic") =>
         /\ IF pid \in Resident
            THEN LET page == buffer_pool[page_table[pid]]
                 IN /\ ret'.res = "true"
                    /\ ret'.events = <<Event("write_page", pid, page.data)>>
                    /\ disk_manager'.fake_file =
                         [disk_manager.fake_file EXCEPT ![pid] = page.data]
            ELSE /\ ret'.res = "false"
                 /\ ret'.events = <<>>
                 /\ disk_manager'.fake_file = disk_manager.fake_file
         /\ UNCHANGED <<page_table, free_list, buffer_pool, replacer>>]_vars

C16_Witness ==
  /\ ret.op = "flush_page" /\ ret.res = "true"
  /\ ret.events = <<Event("write_page", ret.pid, 1)>>
  /\ disk_manager.fake_file[ret.pid] = 1
  /\ buffer_pool[ret.fid].dirty_flag
  /\ buffer_pool[ret.fid].pin_count = 1

\* C17: whenever the replacer's mutex is not held, size() reports the number
\* of frames whose marker is not ABSENT; it is always between 0 and the
\* number of frames.
C17_SizeCountsCandidates ==
  /\ ~MutexHeld => replacer.size = Cardinality(Candidates(replacer))
  /\ replacer.size >= 0
  /\ replacer.size <= ReplacerFrames

C17_Witness ==
  /\ ~MutexHeld
  /\ replacer.size = 2
  /\ ret.op = "victim" /\ ret.res = "Some"
  /\ \E t \in RThreads : threads[t].pc = "victim_lock"

\* The slots a sweep that starts on slot from passes before it reaches slot
\* to, going forward with wrap-around: from itself included, to excluded.
SweepDistance(r, from, to) ==
  (to - from + Cardinality(DOMAIN r.frame_holder)) % Cardinality(DOMAIN r.frame_holder)

Nearest(r, slots) ==
  CHOOSE v \in slots :
    \A w \in slots : SweepDistance(r, r.last, v) <= SweepDistance(r, r.last, w)

\* The frame the sweep stops on: the first REF_ZERO slot in sweep order or,
\* when there is none, the first REF_ONE slot, which the sweep demotes on
\* its first pass and reaches again after a whole turn.
SweepStop(r) ==
  LET zeros == {i \in DOMAIN r.frame_holder : r.frame_holder[i] = REF_ZERO}
      ones == {i \in DOMAIN r.frame_holder : r.frame_holder[i] = REF_ONE}
  IN IF zeros # {} THEN Nearest(r, zeros) ELSE Nearest(r, ones)

SweepPassed(r, v) ==
  IF r.frame_holder[v] = REF_ZERO
  THEN {i \in DOMAIN r.frame_holder :
          SweepDistance(r, r.last, i) < SweepDistance(r, r.last, v)}
  ELSE DOMAIN r.frame_holder

\* tests::test_clock_replacer, as a computation on the model's operators
RECURSIVE ApplyAll(_, _)
ApplyAll(r, calls) ==
  IF calls = <<>> THEN <<>>
  ELSE LET c == Head(calls)
           v == ClockReplacer_victim(r)
           r2 == IF c[1] = "unpin" THEN ClockReplacer_unpin(r, c[2])
                 ELSE IF c[1] = "pin" THEN ClockReplacer_pin(r, c[2])
                 ELSE v.replacer
       IN (IF c[1] = "victim" THEN <<v.fid>> ELSE <<>>) \o ApplyAll(r2, Tail(calls))

TestClockReplacer ==
  ApplyAll(ClockReplacer_new(7),
           << <<"unpin", 1>>, <<"unpin", 2>>, <<"unpin", 3>>, <<"unpin", 4>>,
              <<"unpin", 5>>, <<"unpin", 6>>, <<"unpin", 1>>,
              <<"victim", None>>, <<"victim", None>>, <<"victim", None>>,
              <<"pin", 3>>, <<"pin", 4>>, <<"unpin", 4>>,
              <<"victim", None>>, <<"victim", None>>, <<"victim", None>> >>)
    = <<1, 2, 3, 5, 6, 4>>

\* C18: with at least one candidate, victim() sweeps forward from the hand
\* with wrap-around, skips ABSENT slots, demotes every REF_ONE slot it passes
\* to REF_ZERO, returns the first REF_ZERO slot it reaches, marks it ABSENT,
\* decrements the count by 1 and leaves the hand on that slot; the example
\* of tests::test_clock_replacer yields victims 1, 2, 3 and then 5, 6, 4.
C18_VictimSweep ==
  /\ []TestClockReplacer
  /\ [][(ReplacerVictim /\ Candidates(replacer) # {}) =>
          LET v == SweepStop(replacer)
              passed == SweepPassed(replacer, v)
          IN /\ ret'.res = "Some" /\ ret'.fid = v
             /\ replacer'.frame_holder =
                  [i \in DOMAIN replacer.frame_holder |->
                     IF i = v THEN NO_FRAME
                     ELSE IF i \in passed /\ replacer.frame_holder[i] = REF_ONE
                          THEN REF_ZERO
                          ELSE replacer.frame_holder[i]]
             /\ replacer'.size = replacer.size - 1
             /\ replacer'.last = v]_vars

\* the first victim() after unpin(1), unpin(2) with no REF_ZERO slot: it
\* demoted both slots, went a whole turn with wrap-around and returned 1
C18_Witness ==
  /\ ret.op = "victim" /\ ret.res = "Some" /\ ret.fid = 1
  /\ replacer.last = 1
  /\ replacer.frame_holder = [i \in SeqFrameIds |->
                                IF i = 2 THEN REF_ZERO ELSE NO_FRAME]
  /\ ghost.after = "unpin" /\ ghost.f = 2
  /\ ghost.cands = {1, 2}
  /\ ghost.got = <<1>>

\* C19: after unpin(f), with no further pin or unpin, the victim() calls
\* return every candidate exactly once, f among them, within size() calls,
\* and return None only once all of them have been returned.
C19_VictimEnumeratesCandidates ==
  ghost.after = "unpin" =>
    /\ ghost.f \in ghost.cands
    /\ \A i \in 1 .. Len(ghost.got) : ghost.got[i] \in ghost.cands
    /\ \A i, j \in 1 .. Len(ghost.got) : ghost.got[i] = ghost.got[j] => i = j
    /\ replacer.size = Cardinality(ghost.cands) - Len(ghost.got)
    /\ (ret.op = "victim" /\ ret.res = "None") =>
         {ghost.got[i] : i \in 1 .. Len(ghost.got)} = ghost.cands

C19_Witness ==
  /\ ghost.after = "unpin" /\ ghost.f = 2
  /\ ghost.cands = {0, 2, 3}
  /\ Len(ghost.got) = 3
  /\ ghost.got[3] = 2
  /\ ret.op = "victim" /\ ret.res = "None"

\* C20: under any interleaving of pin, unpin and victim threads, every frame
\* victim() returns is below the number of frames and its marker was not
\* ABSENT when the sweep selected it, and a frame is not returned by two
\* victim() calls without an unpin of it taking effect in between.
C20_VictimReturnsCandidateOnce ==
  [][\A t \in RThreads :
       /\ (RVictimLoop(t) /\ threads'[t].pc = "victim_dec") =>
            /\ threads'[t].f \in RFrames
            /\ replacer.frame_holder[threads'[t].f] # NO_FRAME
       /\ RVictimDec(t) =>
            /\ ret'.res = "Some"
            /\ ret'.fid = threads[t].f
            /\ ret'.fid >= 0 /\ ret'.fid < ReplacerFrames
            /\ ~ghost[ret'.fid]]_vars

\* two frames returned by victim() and not unpinned since, the last return
\* made while another thread's victim() waits for the mutex
C20_Witness ==
  /\ ret.op = "victim" /\ ret.res = "Some" /\ ret.fid = 0
  /\ ghost[0] /\ ghost[1]
  /\ ~MutexHeld
  /\ \E t \in RThreads : threads[t].pc = "victim_lock"

OtherMarkersKept(f) ==
  \A g \in SeqFrameIds \ {f} : replacer'.frame_holder[g] = replacer.frame_holder[g]

\* C21: pin(f) on an ABSENT frame changes nothing, so a second pin(f) leaves
\* the whole replacer state (markers, count, hand) as the first left it;
\* unpin(f) on a candidate keeps the count and sets the marker to REF_ONE,
\* so a second unpin(f) leaves the state as the first left it.  Neither
\* moves the hand or touches another frame's marker.
C21_PinUnpinIdempotent ==
  [][\A f \in SeqFrameIds :
       /\ ReplacerPin(f) =>
            /\ replacer.frame_holder[f] = NO_FRAME => replacer' = replacer
            /\ (ret.op = "pin" /\ ret.fid = f) => replacer' = replacer
            /\ ClockReplacer_pin(replacer', f) = replacer'
            /\ replacer'.frame_holder[f] = NO_FRAME
            /\ replacer'.last = replacer.last
            /\ OtherMarkersKept(f)
       /\ ReplacerUnpin(f) =>
            /\ replacer.frame_holder[f] # NO_FRAME => replacer'.size = replacer.size
            /\ (ret.op = "unpin" /\ ret.fid = f) => replacer' = replacer
            /\ ClockReplacer_unpin(replacer', f) = replacer'
            /\ replacer'.frame_holder[f] = REF_ONE
            /\ replacer'.last = replacer.last
            /\ OtherMarkersKept(f)]_vars

\* after unpin(1) on a replacer whose hand stands on slot 2 and which holds
\* a demoted candidate and an absent frame
C21_Witness ==
  /\ ret.op = "unpin" /\ ret.fid = 1
  /\ replacer.last = 2
  /\ replacer.size = 2
  /\ replacer.frame_holder = [i \in SeqFrameIds |->
        IF i = 1 THEN REF_ONE ELSE IF i = 3 THEN REF_ZERO ELSE NO_FRAME]

\* C26: for every header page h, deserialize(h.serialize()) yields a header
\* with the same owning page id, number of buckets and next index, and the
\* same block page id at every directory index 0..D-1, D = 509.
C26_HeaderRoundTrip ==
  /\ BLOCK_PAGE_IDS_SIZE(RealLayout) = 509
  /\ ret.op = "deserialize" =>
       /\ ret.out.ok
       /\ ret.out.header.basic_info = ghost.basic_info
       /\ \A i \in 0 .. (BLOCK_PAGE_IDS_SIZE(RealLayout) - 1) :
            ret.out.header.block_page_ids[i] = ghost.block_page_ids[i]

\* the part of C26 that holds: the three fields and every directory entry
\* but the last come back
C26_HeaderRoundTripButLast ==
  ret.op = "deserialize" =>
    /\ ret.out.ok
    /\ Len(ret.raw) = PAGE_SIZE
    /\ ret.out.header.basic_info = ghost.basic_info
    /\ \A i \in 0 .. (BLOCK_PAGE_IDS_SIZE(RealLayout) - 2) :
         ret.out.header.block_page_ids[i] = ghost.block_page_ids[i]
    /\ ret.out.header.block_page_ids[BLOCK_PAGE_IDS_SIZE(RealLayout) - 1] = INVALID_PAGE_ID

\* C27: for every block page b, deserialize applied to b.serialize() as
\* stored in a PAGE_SIZE page buffer yields a block with equal occupied and
\* readable bitmaps and an equal (key, value) mapping at every occupied slot
\* 0..CAP-1.
C27_BlockRoundTrip ==
  ret.op = "deserialize" =>
    /\ ret.out.occupied = ghost.occupied
    /\ ret.out.readable = ghost.readable
    /\ \A i \in 0 .. (capacity_of_block(RealLayout) - 1) :
         HashTableBlockPage_occupied(ghost, i) =>
           HashTableBlockPage_get(ret.out, i) = HashTableBlockPage_get(ghost, i)

\* the part of C27 that holds: the bitmaps and every mapping but the one of
\* the last slot come back; the last slot comes back as the default mapping
C27_BlockRoundTripButLast ==
  /\ capacity_of_block(RealLayout) = 135
  /\ BitmapLen(RealLayout) = 17
  /\ ret.op = "deserialize" =>
       /\ ret.out.occupied = ghost.occupied
       /\ ret.out.readable = ghost.readable
       /\ \A i \in 0 .. (capacity_of_block(RealLayout) - 2) :
            HashTableBlockPage_get(ret.out, i) = HashTableBlockPage_get(ghost, i)
       /\ HashTableBlockPage_get(ret.out, capacity_of_block(RealLayout) - 1) = DefaultMapping

PageBytesKept == \A f \in DOMAIN buffer_pool : buffer_pool'[f].data = buffer_pool[f].data

\* C22: after insert(k, v) has returned true, a second insert(k, v) returns
\* false and leaves the header page and every block page byte-identical,
\* whatever the home slot of k (the final slot of a block included).
C22_SecondInsertIsDuplicate ==
  [][\A k \in HashKeys, v \in HashValues :
       (HashInsert(k, v) /\ ret = HashRet("insert", k, v, "true")) =>
         /\ ret'.res = "false"
         /\ PageBytesKept
         /\ page_table' = page_table]_vars

\* The index as its page bytes say, read straight from the frames bp mapped
\* by pt: the directory entry of bucket b, and of global slot s (block
\* s / CAP, offset s mod CAP) the occupied bit and the stored mapping.
SmallCap == capacity_of_block(SmallLayout)

RawDirectory(bp, pt, b) ==
  LEValue(bp[pt[threads[1].header_pid]].data,
          BasicInfoSize(SmallLayout) + b * SmallLayout.word, SmallLayout.word)

RawBlockData(bp, pt, b) == bp[pt[RawDirectory(bp, pt, b)]].data

RawOccupied(bp, pt, s) ==
  /\ RawDirectory(bp, pt, s \div SmallCap) # SmallLayout.invalid
  /\ BitOf(RawBlockData(bp, pt, s \div SmallCap)[(s % SmallCap) \div 8 + 1],
           (s % SmallCap) % 8) = 1

RawMapping(bp, pt, s) ==
  LET at == 2 * BitmapLen(SmallLayout) + (s % SmallCap) * MappingSize(SmallLayout)
  IN [key |-> LEValue(RawBlockData(bp, pt, s \div SmallCap), at, SmallLayout.key_size),
      value |-> LEValue(RawBlockData(bp, pt, s \div SmallCap),
                        at + SmallLayout.key_size, SmallLayout.value_size)]

\* the place of slot s in the probe order that starts at home slot h
ProbeRank(h, s) ==
  LET d == ((s \div SmallCap) - (h \div SmallCap) + HashBuckets) % HashBuckets
  IN IF d = 0 /\ s >= h THEN s - h
     ELSE IF d = 0 THEN (SmallCap - (h % SmallCap)) + (HashBuckets - 1) * SmallCap + (s % SmallCap)
     ELSE (SmallCap - (h % SmallCap)) + (d - 1) * SmallCap + (s % SmallCap)

FirstFree(h) ==
  CHOOSE s \in 0 .. (HashSlots - 1) :
    /\ ~RawOccupied(buffer_pool, page_table, s)
    /\ \A t \in 0 .. (HashSlots - 1) :
         ~RawOccupied(buffer_pool, page_table, t) => ProbeRank(h, s) <= ProbeRank(h, t)

StoredAtFirstFree(k, v) ==
  LET h == threads[1].hash_fn[k] % HashSlots
      s == FirstFree(h)
  IN /\ \E t \in 0 .. (HashSlots - 1) : ~RawOccupied(buffer_pool, page_table, t)
     /\ RawOccupied(buffer_pool', page_table', s)
     /\ RawMapping(buffer_pool', page_table', s) = [key |-> k, value |-> v]
     /\ \A t \in 0 .. (HashSlots - 1) \ {s} :
          RawOccupied(buffer_pool', page_table', t) = RawOccupied(buffer_pool, page_table, t)
     /\ RawDirectory(buffer_pool, page_table, s \div SmallCap) = SmallLayout.invalid =>
          /\ RawDirectory(buffer_pool', page_table', s \div SmallCap) = disk_manager.page_counter
          /\ disk_manager'.page_counter = disk_manager.page_counter + 1

StoredMappingsKept ==
  \A t \in 0 .. (HashSlots - 1) :
    RawOccupied(buffer_pool, page_table, t) =>
      /\ RawOccupied(buffer_pool', page_table', t)
      /\ RawMapping(buffer_pool', page_table', t) = RawMapping(buffer_pool, page_table, t)

\* C23: an insert(k, v) that returns true stores (k, v) at the first
\* unoccupied slot in probe order from the home slot (to the end of the home
\* block, then from slot 0 of each following block, wrapping to bucket 0); a
\* bucket whose directory entry is unset receives a newly allocated block;
\* all previously stored mappings keep their slots and values.
C23_InsertAtFirstFreeSlot ==
  [][\A k \in HashKeys, v \in HashValues :
       (HashInsert(k, v) /\ ret'.res = "true") =>
         StoredAtFirstFree(k, v) /\ StoredMappingsKept]_vars

\* the part of C23 that holds: where the pair is stored, and the new block
C23_InsertPlacement ==
  [][\A k \in HashKeys, v \in HashValues :
       (HashInsert(k, v) /\ ret'.res = "true") => StoredAtFirstFree(k, v)]_vars

\* C24: after insert(k, v) returned true, get_value(k) returns a result
\* that contains v, whether (k, v) is stored in the home slot of k or was
\* displaced by probing to a later slot or block.
C24_GetValueFindsInserted ==
  (ret.op = "get_value" /\ ret.res # "panic") =>
    \A v \in HashValues :
      <<ret.k, v>> \in ghost.inserted => \E i \in 1 .. Len(ret.res) : ret.res[i] = v

\* every slot of every bucket is occupied and none holds (k, v)
TableFullWithout(k, v) ==
  \A s \in 0 .. (HashSlots - 1) :
    /\ RawOccupied(buffer_pool, page_table, s)
    /\ RawMapping(buffer_pool, page_table, s) # [key |-> k, value |-> v]

\* C25: insert terminates for every input and table state: when every slot
\* of every bucket is occupied and none holds (k, v), insert stops after
\* traversing all buckets once and reports that the table is full rather
\* than probing forever.
C25_InsertTerminates ==
  [][\A k \in HashKeys, v \in HashValues :
       HashInsert(k, v) =>
         /\ ret'.res # "hang"
         /\ TableFullWithout(k, v) => ret'.res = "false"]_vars

\* page id p is allocated in the bitmap of file manager fdm
SlotSet(fdm, p) == BitOf(fdm.page_table[p \div 8], p % 8) = 1

\* C28: on the file backend allocate_page returns an id below MAX_PAGES whose
\* bitmap bit was clear (possibly one freed earlier by deallocate_page) and
\* sets that bit, leaving the others; it fails with "Exceeded max page." if
\* and only if all MAX_PAGES ids are allocated, wherever the cursor stands.
C28_AllocateFindsFreeId ==
  [][FileAllocate =>
       LET fdm == disk_manager.file_dm
           after == disk_manager'.file_dm
       IN /\ ret'.res \in {"Ok", "Exceeded max page."}
          /\ ret'.res = "Exceeded max page." <=> \A p \in FilePages : SlotSet(fdm, p)
          /\ ret'.res = "Exceeded max page." => after = fdm
          /\ ret'.res = "Ok" =>
               /\ Len(ret'.out) = 1
               /\ ret'.out[1] \in FilePages
               /\ ~SlotSet(fdm, ret'.out[1])
               /\ \A p \in FilePages :
                    SlotSet(after, p) <=> (SlotSet(fdm, p) \/ p = ret'.out[1])]_vars

\* every id was allocated, deallocate_page(1) freed one, and allocate_page
\* hands that id out again
C28_Witness ==
  /\ ret = DiskRet("file", "allocate_page", None, "Ok", <<1>>)
  /\ ghost.ops = 2
  /\ \A p \in FilePages : SlotSet(disk_manager.file_dm, p)

FileStoreKept ==
  /\ disk_manager'.file_dm.page_table = disk_manager.file_dm.page_table
  /\ disk_manager'.file_dm.file = disk_manager.file_dm.file

\* C29: on the file backend deallocate_page, write_page and read_page with
\* pid >= MAX_PAGES fail with the invalid-id error, and write_page/read_page
\* on an id below MAX_PAGES whose bitmap bit is clear fail with the
\* unallocated error; in every such failure the allocation bitmap and the
\* stored page contents are unchanged.
C29_InvalidAndUnallocatedRefused ==
  [][\A pid \in FilePids :
       /\ ( /\ pid >= SmallDisk.max_pages
            /\ \/ FileDeallocate(pid)
               \/ \E d \in DiskDatas : FileWrite(pid, d)
               \/ FileRead(pid) ) =>
            (ret'.res = "Invalid page id." /\ FileStoreKept)
       /\ ( /\ pid < SmallDisk.max_pages
            /\ ~SlotSet(disk_manager.file_dm, pid)
            /\ \/ \E d \in DiskDatas : FileWrite(pid, d)
               \/ FileRead(pid) ) =>
            (ret'.res = "Page id not allocate." /\ FileStoreKept)]_vars

\* write_page(1) is refused as unallocated after deallocate_page(1), and the
\* bytes written to page 1 before are still in the file
C29_Witness ==
  /\ ret = DiskRet("file", "write_page", 1, "Page id not allocate.", <<>>)
  /\ ~SlotSet(disk_manager.file_dm, 1)
  /\ ghost.file[1] # ZeroBytes
  /\ File_read_page(SmallDisk, set_slot([disk_manager.file_dm EXCEPT !.page_counter = 1]), 1).out
       = ghost.file[1]

\* the bytes of page q in the file of the file manager fdm
FilePage(fdm, q) == [i \in 1 .. SmallDisk.page_size |-> fdm.file[q * SmallDisk.page_size + i]]

\* read_page and write_page of the file backend on an allocated page
FileReadsLastWrite ==
  \A pid \in FilePages \cap FilePids :
    SlotSet(disk_manager.file_dm, pid) =>
      /\ FileRead(pid) => (ret'.res = "Ok" /\ ret'.out = ghost.file[pid])
      /\ \A d \in DiskDatas :
           FileWrite(pid, d) =>
             /\ ret'.res = "Ok"
             /\ FilePage(disk_manager'.file_dm, pid) = PageBytes(d)
             /\ \A q \in FilePages \ {pid} :
                  FilePage(disk_manager'.file_dm, q) = FilePage(disk_manager.file_dm, q)
             /\ Len(disk_manager'.file_dm.file) = Len(disk_manager.file_dm.file)

\* read_page and write_page of the in-memory backend on the page ids of
\* pids that allocate_page has handed out
FakeReadsLastWrite(pids) ==
  \A pid \in pids :
    pid < disk_manager.fake_dm.page_counter =>
      /\ FakeRead(pid) => (ret'.res = "Ok" /\ ret'.out = <<ghost.fake[pid]>>)
      /\ \A d \in DiskDatas :
           FakeWrite(pid, d) =>
             /\ ret'.res = "Ok"
             /\ disk_manager'.fake_dm.fake_file[pid] = d
             /\ \A q \in FakeFilePids \ {pid} :
                  disk_manager'.fake_dm.fake_file[q] = disk_manager.fake_dm.fake_file[q]

\* C30: for both disk backends and any sequence of writes to allocated
\* pages, read_page(p) returns exactly the bytes of the most recent
\* write_page(p) (all zeros if p was never written), and write_page(p)
\* leaves the contents of every other page unchanged.
C30_ReadReturnsLastWrite ==
  [][FileReadsLastWrite /\ FakeReadsLastWrite(FakePids)]_vars

\* what holds of C30: the file backend, and the in-memory backend for the
\* ids below MAX_FILE_PAGES
C30_ReadReturnsLastWriteInFile ==
  [][FileReadsLastWrite /\ FakeReadsLastWrite(FakeFilePids)]_vars

\* a fetch_page or new_page that acquired a frame takes the head of a
\* non-empty free list, no frame the page table points to, and turns to the
\* replacer only when the free list is empty; the k-th acquisition on the
\* fresh free list receives frame N-k
FreeListFirst ==
  /\ free_list # <<>> =>
       /\ ret'.src = "free"
       /\ ret'.fid = Head(free_list)
       /\ free_list' = Tail(free_list)
       /\ \A p \in DOMAIN page_table : page_table[p] # ret'.fid
  /\ ret'.src = "victim" => free_list = <<>>
  /\ \A k \in 1 .. PoolSize :
       free_list = SubSeq(build_full_free_list(PoolSize), k, PoolSize) =>
         ret'.fid = PoolSize - k

\* C31: fetch_page and new_page take a frame from the free list whenever it
\* is non-empty and ask the replacer for a victim only when the free list is
\* empty (no resident page is ever evicted while a free frame exists); on a
\* fresh pool of size N the k-th frame acquisition receives frame N-k.
C31_FreeListBeforeReplacer ==
  [][((Returned("fetch_page") \/ Returned("new_page")) /\ ret'.src \in {"free", "victim"}) =>
       /\ FreeListFirst
       /\ free_list # <<>> => \A p \in DOMAIN page_table : p \in DOMAIN page_table']_vars

\* the part of C31 that holds: the order of free list and replacer
C31_FreeListOrder ==
  [][((Returned("fetch_page") \/ Returned("new_page")) /\ ret'.src \in {"free", "victim"}) =>
       FreeListFirst]_vars

\* thread t returns None from victim() in this step
VictimReturnsNone(t) ==
  \/ RVictimCall(t) /\ ret'.res = "None" /\ threads'[t] = RIdle
  \/ RVictimLoop(t) /\ threads'[t] = RIdle

\* C32: under concurrent pin/unpin/victim calls, every victim() call that
\* returns None does so only after observing a candidate count of zero while
\* holding the replacer mutex.
C32_NoneOnlyUnderMutex ==
  [][\A t \in RThreads :
       VictimReturnsNone(t) => (threads[t].pc \in CriticalPcs /\ replacer.size = 0)]_vars

\* C33: every victim() call terminates: once it holds the mutex, its sweep
\* inspects at most 2N slots (N = number of frames) before returning a frame
\* or None, for every marker configuration and hand position.
C33_SweepBounded ==
  /\ ghost.inspected <= 2 * SeqFrames
  /\ ClockReplacer_victim(replacer).inspected <= 2 * SeqFrames

\* a sweep that went once around all N frames, demoting each, and took the
\* frame it started from on the second visit
C33_Witness ==
  /\ ret.op = "victim" /\ ret.res = "Some"
  /\ ghost.inspected = SeqFrames + 1
  /\ Cardinality(Candidates(replacer)) = SeqFrames - 1

\* C34: in every block page produced by a sequence of block inserts from a
\* new block the readable bitmap equals the occupied bitmap: a successful
\* insert into slot i sets the occupied bit i and the readable bit i, and a
\* rejected insert into an occupied slot changes neither bitmap nor the
\* stored mapping.
C34_ReadableEqualsOccupied ==
  [][\A slot_idx \in BlockSlots, key \in Keys, value \in Values :
       (ret'.op = "insert" /\ BlockInsert(slot_idx, key, value)) =>
         /\ ghost'.readable = ghost'.occupied
         /\ ret'.out =>
              /\ BitOf(ghost'.occupied[slot_idx \div 8 + 1], slot_idx % 8) = 1
              /\ BitOf(ghost'.readable[slot_idx \div 8 + 1], slot_idx % 8) = 1
              /\ ghost'.array[slot_idx] = [key |-> key, value |-> value]
         /\ ~ret'.out => ghost' = ghost]_vars

\* the part of C34 that holds: the occupied bitmap and the rejected insert
C34_OccupiedSet ==
  [][\A slot_idx \in BlockSlots, key \in Keys, value \in Values :
       (ret'.op = "insert" /\ BlockInsert(slot_idx, key, value)) =>
         /\ ret'.out =>
              /\ BitOf(ghost'.occupied[slot_idx \div 8 + 1], slot_idx % 8) = 1
              /\ ghost'.array[slot_idx] = [key |-> key, value |-> value]
         /\ ~ret'.out => ghost' = ghost]_vars

\* the block pages the index has allocated through new_page: every id the
\* disk has handed out but the one of the header page
IndexBlockPids == (0 .. (disk_manager.page_counter - 1)) \ {threads[1].header_pid}

\* every directory entry of the header page is unset or the id of a block
\* page of the index, resident in the pool, and no two buckets share a block
DirectoryValid ==
  /\ \A b \in 0 .. (BLOCK_PAGE_IDS_SIZE(SmallLayout) - 1) :
       \/ RawDirectory(buffer_pool, page_table, b) = SmallLayout.invalid
       \/ /\ b < HashBuckets
          /\ RawDirectory(buffer_pool, page_table, b) \in IndexBlockPids
          /\ RawDirectory(buffer_pool, page_table, b) \in DOMAIN page_table
  /\ \A b, c \in 0 .. (HashBuckets - 1) :
       (b # c /\ RawDirectory(buffer_pool, page_table, b) # SmallLayout.invalid) =>
         RawDirectory(buffer_pool, page_table, b) # RawDirectory(buffer_pool, page_table, c)

\* an insert that stored its pair: a new block page is allocated exactly when
\* the directory entry of the bucket it arrives at is unset, and then the
\* pair is in the new block at the probe offset and the entry is in the
\* header page
NewBlockForUnsetEntry(k, v) ==
  LET s == FirstFree(threads[1].hash_fn[k] % HashSlots)
      b == s \div SmallCap
      unset == RawDirectory(buffer_pool, page_table, b) = SmallLayout.invalid
  IN /\ unset =>
          /\ disk_manager'.page_counter = disk_manager.page_counter + 1
          /\ RawDirectory(buffer_pool', page_table', b) = disk_manager.page_counter
          /\ RawOccupied(buffer_pool', page_table', s)
          /\ RawMapping(buffer_pool', page_table', s) = [key |-> k, value |-> v]
     /\ ~unset => disk_manager'.page_counter = disk_manager.page_counter
     /\ \A c \in (0 .. (HashBuckets - 1)) \ {b} :
          RawDirectory(buffer_pool', page_table', c) = RawDirectory(buffer_pool, page_table, c)

\* C35: after any sequence of hash index inserts every directory entry of
\* the header page is either INVALID_PAGE_ID or the id of a block page that
\* this index allocated through new_page; an insert that finds the entry of
\* its target bucket unset allocates exactly one new block page, stores
\* (k, v) at the probe offset and persists the updated directory entry in
\* the header page.
C35_DirectoryEntriesValid ==
  /\ []DirectoryValid
  /\ [][\A k \in HashKeys, v \in HashValues :
          (HashInsert(k, v) /\ ret'.res = "true") => NewBlockForUnsetEntry(k, v)]_vars

\* both buckets have received their block page, the second by the last insert
C35_Witness ==
  /\ ret.op = "insert" /\ ret.res = "true"
  /\ Cardinality(IndexBlockPids) = HashBuckets
  /\ \A b \in 0 .. (HashBuckets - 1) :
       RawDirectory(buffer_pool, page_table, b) \in IndexBlockPids
  /\ ghost.ops = 2

\* C36: every hash index operation (constructor, insert, get_value) calls
\* unpin_page exactly once for each page it acquired through fetch_page or
\* new_page: when the operation has returned, no header or block page is
\* left pinned by the index.
C36_IndexLeavesNothingPinned ==
  (~panicked /\ ret.res # "hang") =>
    \A f \in DOMAIN buffer_pool : buffer_pool[f].pin_count = 0

\* what update_page does hold to: the block page an insert wrote is unpinned
\* again by the end of update_page unless get_block pinned it as well
C36_NewBlockUnpinned ==
  [][\A k \in HashKeys, v \in HashValues :
       (HashInsert(k, v) /\ ret'.res = "true"
          /\ disk_manager'.page_counter = disk_manager.page_counter + 1) =>
         buffer_pool'[page_table'[disk_manager.page_counter]].pin_count = 0]_vars

\* C37: the pin count stays non-negative: unpin_page(pid, _) on a resident
\* page whose pin count is already 0 does not decrement it below 0; the
\* count neither wraps around nor does the call crash.
C37_UnpinAtZeroStaysZero ==
  [][\A pid \in DataPageIds, is_dirty \in BOOLEAN :
       (/\ contains_key(page_table, pid)
        /\ buffer_pool[page_table[pid]].pin_count = 0
        /\ UnpinPage(pid, is_dirty)) =>
         /\ ~panicked'
         /\ buffer_pool'[page_table[pid]].pin_count = 0]_vars

\* C38: in every reachable state, also after a fetch_page or new_page that
\* returned OutOfMemory or a disk allocation error, every frame is either on
\* the free list or the target of exactly one page-table entry, so
\* |free list| + |page table| = N.
MappedTo(f) == {p \in DOMAIN page_table : page_table[p] = f}
C38_FramesAccounted ==
  ~panicked =>
    /\ \A f \in Frames :
         \/ InFreeList(f) /\ MappedTo(f) = {}
         \/ ~InFreeList(f) /\ Cardinality(MappedTo(f)) = 1
    /\ Len(free_list) + Cardinality(DOMAIN page_table) = Cardinality(Frames)

\* the part of C38 about OutOfMemory alone: that failure leaves the free
\* list, the page table and the replacer's candidates as they were
C38_OutOfMemoryChangesNothing ==
  [][((Returned("fetch_page") \/ Returned("new_page")) /\ ret'.res = "OutOfMemory") =>
       /\ free_list' = free_list
       /\ page_table' = page_table
       /\ Candidates(replacer') = Candidates(replacer)]_vars

\* C39: every write_page(p, bytes) the pool issues is for a page id p that
\* is in the page table at that moment, with the bytes of the frame mapped
\* to p (so nothing is written to a page after its delete_page), and a frame
\* taken from the free list is reused without any write-back.
C39_WritesOnlyMappedPages ==
  [][ret' # ret =>
       /\ \A i \in 1 .. Len(Writes(ret'.events)) :
            Let(Writes(ret'.events)[i], LAMBDA e :
              /\ e.pid \in DOMAIN page_table
              /\ e.arg = buffer_pool[page_table[e.pid]].data)
       /\ ret'.src = "free" => Writes(ret'.events) = <<>>]_vars

\* what does hold: a write-back (of fetch_page, new_page, flush_page or
\* delete_page) sends the id and the bytes held by the frame the call works on
C39_WritesFrameContents ==
  [][ret' # ret =>
       \A i \in 1 .. Len(Writes(ret'.events)) :
         Let(Writes(ret'.events)[i], LAMBDA e :
           \E f \in Frames : e.pid = buffer_pool[f].id /\ e.arg = buffer_pool[f].data)]_vars

\* C40: for every mapping size s, with CAP = floor(4 * PAGE_SIZE / (4 * s + 1)),
\* the serialized block page is at most PAGE_SIZE bytes long, so copying it
\* into a page buffer never runs past the end of the page.
C40_SerializedBlockFitsPage ==
  /\ ret.op = "serialize" => Len(ret.raw) <= PAGE_SIZE
  /\ ret.op = "update_page" => ~panicked

\* the length of the serialized block page is the one C40 names, and a block
\* page of at most PAGE_SIZE bytes is copied into the page whole
C40_SerializedLength ==
  /\ ret.op = "serialize" =>
       Len(ret.raw) = 2 * ((capacity_of_block(ghost.layout) + 7) \div 8)
                        + capacity_of_block(ghost.layout) * MappingSize(ghost.layout)
  /\ (ret.op = "update_page" /\ Len(ret.raw) <= PAGE_SIZE) =>
       /\ ~panicked
       /\ \A f \in DOMAIN buffer_pool :
            SubSeq(buffer_pool[f].data, 1, Len(ret.raw)) = ret.raw

TypeOK ==
  /\ DOMAIN page_table \subseteq DOMAIN disk_manager.fake_file
  /\ \A p \in DOMAIN page_table : page_table[p] \in DOMAIN buffer_pool
  /\ \A f \in DOMAIN buffer_pool : buffer_pool[f].data \in Data

====
